---- MODULE Spec2Model ----
(***************************************************************************)
(* Model of the ksonnet parameter editor (metadata/params) and of the       *)
(* environment manager that keeps the files it edits.                      *)
(*                                                                         *)
(* A snippet is the text of a jsonnet document.  It is modelled as the     *)
(* sequence of its lines (what strings.Split(snippet, "\n") returns); a    *)
(* line is its indentation and its sequence of tokens.  White space inside *)
(* a line is not represented; everything else (which token sits on which   *)
(* line, comments, commas, quote style, number spelling) is.  Every        *)
(* operation re-parses the text it is given, as the code does.             *)
(***************************************************************************)
EXTENDS Integers, Sequences, FiniteSets, TLC

(***************************************************************************)
(* Tokens, lines, texts                                                    *)
(***************************************************************************)
T(k, v) == [k |-> k, v |-> v]
ID(v)   == T("id", v)
STR2(v) == T("str2", v)
STR1(v) == T("str1", v)
NUM(v)  == T("num", v)
KW(v)   == T("kw", v)
P(v)    == T("p", v)
CMT(v)  == T("cmt", v)
BAD(v)  == T("bad", v)

L(ind, toks) == [ind |-> ind, toks |-> toks]
EmptyLine == L(0, <<>>)

\* strings.Join(lines, "\n"): the text whose lines are `lines`; the empty
\* string is the text with one empty line.
Join(lines) == IF lines = <<>> THEN <<EmptyLine>> ELSE lines

\* string concatenation on texts: the last line of a and the first line of b
\* become one line.
MergeLine(x, y) ==
    IF x.toks = <<>> THEN L(x.ind + y.ind, y.toks)
    ELSE L(x.ind, x.toks \o y.toks)

Concat(a, b) ==
    SubSeq(a, 1, Len(a) - 1) \o <<MergeLine(a[Len(a)], b[1])>> \o SubSeq(b, 2, Len(b))

\* Go slices lines[:n] and lines[n:] (n is a 0-based index)
SliceTo(lines, n)   == SubSeq(lines, 1, n)
SliceFrom(lines, n) == SubSeq(lines, n + 1, Len(lines))

(***************************************************************************)
(* The lexer: literal texts used as component names, parameter keys and    *)
(* parameter values, and the tokens parser.Lex produces for them.          *)
(***************************************************************************)
Identifiers == {"foo", "bar", "name", "replicas", "x", "a", "b", "z",
                "components", "global", "params"}

LexText(s) ==
    CASE s \in Identifiers -> <<ID(s)>>
      [] s = "foo-bar"     -> <<ID("foo"), P("-"), ID("bar")>>
      [] s = "1"           -> <<NUM("1")>>
      [] s = "2"           -> <<NUM("2")>>
      [] s = "3"           -> <<NUM("3")>>
      [] s = "9"           -> <<NUM("9")>>
      [] s = "1.0"         -> <<NUM("1.0")>>
      [] s = "true"        -> <<KW("true")>>
      [] s = "\"a\""       -> <<STR2("a")>>
      [] s = "\"b\""       -> <<STR2("b")>>
      [] s = "\"foo-bar\"" -> <<STR2("foo-bar")>>
      [] OTHER             -> <<BAD(s)>>

\* the float64 a number token denotes (strconv.ParseFloat in the lexer)
ParseFloat(s) ==
    CASE s = "1" -> 1 [] s = "1.0" -> 1 [] s = "2" -> 2 [] s = "3" -> 3
      [] s = "9" -> 9 [] OTHER -> 0

\* strconv.FormatFloat(v, 'f', -1, 64)
FormatFloat(v) ==
    CASE v = 1 -> "1" [] v = 2 -> "2" [] v = 3 -> "3" [] v = 9 -> "9"
      [] OTHER -> "0"

\* fmt.Sprintf(`"%s"`, s)
Quote(s) ==
    CASE s = "a" -> "\"a\"" [] s = "b" -> "\"b\""
      [] s = "foo-bar" -> "\"foo-bar\""
      [] OTHER -> "\"?\""

(***************************************************************************)
(* The parser (parser.Lex + parser.Parse of go-jsonnet), for the subset    *)
(* of jsonnet the documents below use.  A node carries the lines of its    *)
(* LocationRange.                                                          *)
(***************************************************************************)
RECURSIVE Flatten(_, _)
\* the token stream of a text, comments dropped, each token with its 1-based line
Flatten(lines, n) ==
    IF n > Len(lines) THEN <<>>
    ELSE LET ts == lines[n].toks
             keep == SelectSeq(ts, LAMBDA t : t.k # "cmt")
         IN [i \in 1..Len(keep) |-> [k |-> keep[i].k, v |-> keep[i].v, line |-> n]]
            \o Flatten(lines, n + 1)

EOFTok == [k |-> "eof", v |-> "", line |-> 0]
Tok(toks, i) == IF i >= 1 /\ i <= Len(toks) THEN toks[i] ELSE EOFTok
IsP(t, v) == t.k = "p" /\ t.v = v

NilNode == [kind |-> "nil"]
Fail == [ok |-> FALSE, node |-> NilNode, pos |-> 0]
Ok(node, pos) == [ok |-> TRUE, node |-> node, pos |-> pos]

LiteralNumber(t)  == [kind |-> "LiteralNumber", Value |-> ParseFloat(t.v), OriginalString |-> t.v]
LiteralBoolean(t) == [kind |-> "LiteralBoolean", Value |-> (t.v = "true")]
LiteralString(t)  == [kind |-> "LiteralString", Value |-> t.v,
                      Kind |-> IF t.k = "str1" THEN "StringSingle" ELSE "StringDouble"]
LiteralNull       == [kind |-> "LiteralNull"]
Self              == [kind |-> "Self"]
Dollar            == [kind |-> "Dollar"]
Var(t)            == [kind |-> "Var", Id |-> t.v]
Import(t)         == [kind |-> "Import", File |-> t.v]
Array(elems)      == [kind |-> "Array", Elements |-> elems]
Binary(l, r)      == [kind |-> "Binary", Left |-> l, Right |-> r]
Local(v, b, body) == [kind |-> "Local", Binds |-> <<[Variable |-> v, Body |-> b]>>, Body |-> body]
Object(fields, b, e) == [kind |-> "Object", Fields |-> fields,
                         Loc |-> [Begin |-> [Line |-> b], End |-> [Line |-> e]]]

\* an ast.ObjectField; Id is a pointer: <<>> is nil, <<s>> points to s
ObjectField(key, sugar, body) ==
    [Kind |-> IF key.k = "id" THEN "ObjectFieldID" ELSE "ObjectFieldStr",
     Id |-> IF key.k = "id" THEN <<key.v>> ELSE <<>>,
     Expr1 |-> IF key.k = "id" THEN NilNode ELSE LiteralString(key),
     SuperSugar |-> sugar,
     Expr2 |-> body]

\* an ast.ObjectField whose key is computed: [<expr>]: <expr>
ObjectFieldExpr(key, body) ==
    [Kind |-> "ObjectFieldExpr", Id |-> <<>>, Expr1 |-> key, SuperSugar |-> FALSE,
     Expr2 |-> body]

\* The parser is written as a chain of steps, each taking the results of the
\* steps before it as arguments.
RECURSIVE ParseExpr(_, _), ParseTerm(_, _), ParseBinRest(_, _, _),
          ParseFields(_, _, _, _, _, _), ParseElems(_, _, _, _)

\* local <id> = <expr> ; <expr>
ParseLocalBody(name, b, body) ==
    IF body.ok THEN Ok(Local(name, b.node, body.node), body.pos) ELSE Fail

ParseLocalBind(toks, name, b) ==
    IF b.ok /\ IsP(Tok(toks, b.pos), ";")
    THEN ParseLocalBody(name, b, ParseExpr(toks, b.pos + 1))
    ELSE Fail

ParseTermAt(toks, i, t) ==
    CASE t.k = "num" -> Ok(LiteralNumber(t), i + 1)
      [] t.k \in {"str1", "str2"} -> Ok(LiteralString(t), i + 1)
      [] t.k = "kw" /\ t.v \in {"true", "false"} -> Ok(LiteralBoolean(t), i + 1)
      [] t.k = "kw" /\ t.v = "null" -> Ok(LiteralNull, i + 1)
      [] t.k = "kw" /\ t.v = "self" -> Ok(Self, i + 1)
      [] IsP(t, "$") -> Ok(Dollar, i + 1)
      [] t.k = "id" -> Ok(Var(t), i + 1)
      [] t.k = "kw" /\ t.v = "import" ->
            IF Tok(toks, i + 1).k \in {"str1", "str2"}
            THEN Ok(Import(Tok(toks, i + 1)), i + 2) ELSE Fail
      [] t.k = "kw" /\ t.v = "local" ->
            IF Tok(toks, i + 1).k = "id" /\ IsP(Tok(toks, i + 2), "=")
            THEN ParseLocalBind(toks, Tok(toks, i + 1).v, ParseExpr(toks, i + 3))
            ELSE Fail
      [] IsP(t, "{") -> ParseFields(toks, i + 1, <<>>, {}, TRUE, t.line)
      [] IsP(t, "[") -> ParseElems(toks, i + 1, <<>>, TRUE)
      [] OTHER -> Fail

ParseTerm(toks, i) == ParseTermAt(toks, i, Tok(toks, i))

\* <term> + <term> + ...
ParseBinRight(toks, left, r) ==
    IF r.ok THEN ParseBinRest(toks, Binary(left, r.node), r.pos) ELSE Fail

ParseBinRest(toks, left, i) ==
    IF IsP(Tok(toks, i), "+")
    THEN ParseBinRight(toks, left, ParseTerm(toks, i + 1))
    ELSE Ok(left, i)

ParseBinLeft(toks, l) ==
    IF l.ok THEN ParseBinRest(toks, l.node, l.pos) ELSE Fail

ParseExpr(toks, i) == ParseBinLeft(toks, ParseTerm(toks, i))

\* parseObjectRemainder: fields separated by commas, an optional trailing
\* comma, a literal field name declared twice is a static error
ParseFieldBody(toks, next, op, body, fields, names, beginLine) ==
    IF body.ok
    THEN ParseFields(toks, body.pos,
                     Append(fields, ObjectField(next, IsP(op, "+:"), body.node)),
                     names \cup {next.v}, FALSE, beginLine)
    ELSE Fail

\* [<expr>]: <expr>
ParseFieldExprBody(toks, key, body, fields, names, beginLine) ==
    IF body.ok
    THEN ParseFields(toks, body.pos, Append(fields, ObjectFieldExpr(key.node, body.node)),
                     names, FALSE, beginLine)
    ELSE Fail

ParseFieldExprKey(toks, key, fields, names, beginLine) ==
    IF key.ok /\ IsP(Tok(toks, key.pos), "]") /\ IsP(Tok(toks, key.pos + 1), ":")
    THEN ParseFieldExprBody(toks, key, ParseExpr(toks, key.pos + 2), fields, names,
                            beginLine)
    ELSE Fail

\* parseObjectRemainder without its set of literal field names
ParseFieldAt_NoDuplicateCheck(toks, j, next, op, gotComma, fields, names, first, beginLine) ==
    IF IsP(next, "}") THEN Ok(Object(fields, beginLine, next.line), j + 1)
    ELSE IF ~gotComma /\ ~first THEN Fail
    ELSE IF IsP(next, "[")
    THEN ParseFieldExprKey(toks, ParseExpr(toks, j + 1), fields, names, beginLine)
    ELSE IF next.k \in {"id", "str1", "str2"} /\ (IsP(op, ":") \/ IsP(op, "+:"))
    THEN ParseFieldBody(toks, next, op, ParseExpr(toks, j + 2), fields, names, beginLine)
    ELSE Fail

ParseFieldAt(toks, j, next, op, gotComma, fields, names, first, beginLine) ==
    IF IsP(next, "}") THEN Ok(Object(fields, beginLine, next.line), j + 1)
    ELSE IF ~gotComma /\ ~first THEN Fail
    ELSE IF IsP(next, "[")
    THEN ParseFieldExprKey(toks, ParseExpr(toks, j + 1), fields, names, beginLine)
    ELSE IF next.k \in {"id", "str1", "str2"} /\ (IsP(op, ":") \/ IsP(op, "+:"))
              /\ next.v \notin names
    THEN ParseFieldBody(toks, next, op, ParseExpr(toks, j + 2), fields, names, beginLine)
    ELSE Fail

ParseFieldFrom(toks, j, gotComma, fields, names, first, beginLine) ==
    ParseFieldAt(toks, j, Tok(toks, j), Tok(toks, j + 1), gotComma, fields, names,
                 first, beginLine)

ParseFields(toks, i, fields, names, first, beginLine) ==
    IF ~first /\ IsP(Tok(toks, i), ",")
    THEN ParseFieldFrom(toks, i + 1, TRUE, fields, names, first, beginLine)
    ELSE ParseFieldFrom(toks, i, FALSE, fields, names, first, beginLine)

\* array elements, with the same comma rule
ParseElemBody(toks, e, elems) ==
    IF e.ok THEN ParseElems(toks, e.pos, Append(elems, e.node), FALSE) ELSE Fail

ParseElemAt(toks, j, gotComma, elems, first) ==
    IF IsP(Tok(toks, j), "]") THEN Ok(Array(elems), j + 1)
    ELSE IF ~gotComma /\ ~first THEN Fail
    ELSE ParseElemBody(toks, ParseExpr(toks, j), elems)

ParseElems(toks, i, elems, first) ==
    IF ~first /\ IsP(Tok(toks, i), ",")
    THEN ParseElemAt(toks, i + 1, TRUE, elems, first)
    ELSE ParseElemAt(toks, i, FALSE, elems, first)

ParseEnd(toks, r) ==
    IF r.ok /\ r.pos = Len(toks) + 1
    THEN [err |-> "", node |-> r.node]
    ELSE [err |-> "parse error", node |-> NilNode]

ParseTokens(toks) == ParseEnd(toks, ParseExpr(toks, 1))

\* astRoot: the root node of the snippet, or the parser's error
astRoot(snippet) == ParseTokens(Flatten(snippet, 1))

(***************************************************************************)
(* Errors.  "" is the nil error.                                           *)
(***************************************************************************)
ErrParse            == "parse error"
ErrNoComponents     == "Could not find object node: components"
ErrComponentsType   == "Expected components node type to be object"
ErrUnsupportedNode  == "Unsupported ast.Node type found"
ErrComponentType    == "Expected component node type to be object"
ErrUnsupportedValue == "Found an unsupported param AST node type"
ErrUnsupportedField == "Found unsupported ObjectField.Kind"
ErrDuplicate        == "Component parameters already exists"
ErrNotFound         == "Could not find component identifier"

componentsID == "components"

\* the empty string, returned as the text of a failed operation
EmptyText == Join(<<>>)
\* Params{}
EmptyParams == [k \in {} |-> ""]
\* a nil *ast.Object
NilObj == <<>>
\* a nil *ast.LocationRange
NilLoc == [Begin |-> [Line |-> 0], End |-> [Line |-> 0]]

(***************************************************************************)
(* The locator.  The out-parameter componentsObj is threaded through the   *)
(* walk: a step gets the error and the pointer the step before left.       *)
(***************************************************************************)
RECURSIVE visit(_, _), visitObjectFields(_, _, _), visitElements(_, _, _)

\* `if err != nil { return err }` between two steps of a walk
Then1(r, node) == IF r.err # "" THEN r ELSE visit(node, r.obj)

\* visitObjectField: Method and Params are nil for the fields parsed here;
\* Expr1, Expr2 and Expr3 (nil) are visited in that order
visitObjectField(field, componentsObj) ==
    Then1(visit(field.Expr1, componentsObj), field.Expr2)

\* visitLocalBind: Fun is nil for the binds parsed here
visitLocalBind(bind, componentsObj) == visit(bind.Body, componentsObj)

visitNextField(fields, i, r) ==
    IF r.err # "" THEN r ELSE visitObjectFields(fields, i + 1, r.obj)

\* the loop over n.Fields of the *ast.Object case
visitObjectFields(fields, i, componentsObj) ==
    IF i > Len(fields) THEN [err |-> "", obj |-> componentsObj]
    ELSE IF fields[i].Id # <<>> /\ fields[i].Id[1] = componentsID
    THEN IF fields[i].Expr2.kind # "Object"
         THEN [err |-> ErrComponentsType, obj |-> componentsObj]
         ELSE [err |-> "", obj |-> <<fields[i].Expr2>>]
    ELSE visitNextField(fields, i, visitObjectField(fields[i], componentsObj))

visitNextElement(elems, i, r) ==
    IF r.err # "" THEN r ELSE visitElements(elems, i + 1, r.obj)

\* the loop over n.Elements of the *ast.Array case
visitElements(elems, i, componentsObj) ==
    IF i > Len(elems) THEN [err |-> "", obj |-> componentsObj]
    ELSE visitNextElement(elems, i, visit(elems[i], componentsObj))

\* visit without the case of *ast.Import: an import is an unsupported node
visit_ImportUnsupported(node, componentsObj) ==
    CASE node.kind = "Object" -> visitObjectFields(node.Fields, 1, componentsObj)
      [] node.kind = "Array"  -> visitElements(node.Elements, 1, componentsObj)
      [] node.kind = "Binary" -> Then1(visit(node.Left, componentsObj), node.Right)
      [] node.kind = "Local"  ->
            Then1(visitLocalBind(node.Binds[1], componentsObj), node.Body)
      [] node.kind \in {"Dollar", "LiteralBoolean", "LiteralNull", "LiteralNumber",
                        "LiteralString", "Self", "Var", "nil"} ->
            [err |-> "", obj |-> componentsObj]
      [] OTHER -> [err |-> ErrUnsupportedNode, obj |-> componentsObj]

visit(node, componentsObj) ==
    CASE node.kind = "Object" -> visitObjectFields(node.Fields, 1, componentsObj)
      [] node.kind = "Array"  -> visitElements(node.Elements, 1, componentsObj)
      [] node.kind = "Binary" -> Then1(visit(node.Left, componentsObj), node.Right)
      [] node.kind = "Local"  ->
            Then1(visitLocalBind(node.Binds[1], componentsObj), node.Body)
      [] node.kind \in {"Import", "Dollar", "LiteralBoolean", "LiteralNull",
                        "LiteralNumber", "LiteralString", "Self", "Var", "nil"} ->
            [err |-> "", obj |-> componentsObj]
      [] OTHER -> [err |-> ErrUnsupportedNode, obj |-> componentsObj]

\* the top-level object of a document
RECURSIVE RootObject(_)
RootObject(node) ==
    CASE node.kind = "Object" -> node
      [] node.kind = "Binary" -> RootObject(node.Right)
      [] node.kind = "Local"  -> RootObject(node.Body)
      [] OTHER -> NilNode

\* the end of visitComponentsObj: the error of the walk, or not-found when the
\* pointer is still nil
visitResult(root, r) ==
    IF r.err # "" THEN [err |-> r.err, obj |-> NilObj]
    ELSE IF r.obj = NilObj THEN [err |-> ErrNoComponents, obj |-> NilObj]
    ELSE [err |-> "", obj |-> r.obj]

\* visitResult that takes the top-level object as the components object when
\* the walk finds no components field
visitRoot_RootFallback(root) ==
    IF root.err # "" THEN [err |-> root.err, obj |-> NilObj]
    ELSE IF visit(root.node, NilObj).err = "" /\ visit(root.node, NilObj).obj = NilObj
              /\ RootObject(root.node).kind = "Object"
    THEN [err |-> "", obj |-> <<RootObject(root.node)>>]
    ELSE visitResult(root, visit(root.node, NilObj))

visitRoot(root) ==
    IF root.err # "" THEN [err |-> root.err, obj |-> NilObj]
    ELSE visitResult(root, visit(root.node, NilObj))

visitComponentsObj(snippet) == visitRoot(astRoot(snippet))

(***************************************************************************)
(* The field / param codec                                                 *)
(***************************************************************************)
\* utils.IsASCIIIdentifier
IsASCIIIdentifier(s) == s \in Identifiers

SanitizeComponent(component) ==
    IF ~IsASCIIIdentifier(component) THEN Quote(component) ELSE component

getFieldID(field) ==
    CASE field.Kind = "ObjectFieldStr" ->
            IF field.Expr1.Kind \in {"StringSingle", "StringDouble"}
            THEN [id |-> field.Expr1.Value, err |-> ""]
            ELSE [id |-> "", err |-> ErrUnsupportedField]
      [] field.Kind = "ObjectFieldID" -> [id |-> field.Id[1], err |-> ""]
      [] OTHER -> [id |-> "", err |-> ErrUnsupportedField]

\* hasComponent with the test `field.Id != nil && *field.Id == component` that
\* visit uses for the components key: a quoted key is never recognised
hasComponent_IdOnly(component, field) ==
    [has |-> field.Id # <<>> /\ field.Id[1] = component, err |-> ""]

hasComponent(component, field) ==
    [has |-> getFieldID(field).id = component, err |-> getFieldID(field).err]

visitParamValue(param) ==
    CASE param.kind = "LiteralNumber"  -> [val |-> FormatFloat(param.Value), err |-> ""]
      [] param.kind = "LiteralBoolean" ->
            [val |-> IF param.Value THEN "true" ELSE "false", err |-> ""]
      [] param.kind = "LiteralString"  ->
            IF param.Kind \in {"StringSingle", "StringDouble"}
            THEN [val |-> Quote(param.Value), err |-> ""]
            ELSE [val |-> "", err |-> ErrUnsupportedValue]
      [] OTHER -> [val |-> "", err |-> ErrUnsupportedValue]

\* params[key] = val
MapSet(m, key, val) == [k \in DOMAIN m \cup {key} |-> IF k = key THEN val ELSE m[k]]

RECURSIVE visitParamsFields(_, _, _)

visitParamsField(fields, i, params, v) ==
    IF v.err # "" THEN [params |-> EmptyParams, err |-> v.err]
    ELSE visitParamsFields(fields, i + 1, MapSet(params, fields[i].Id[1], v.val))

\* the loop over n.Fields of visitParams
visitParamsFields(fields, i, params) ==
    IF i > Len(fields) THEN [params |-> params, err |-> ""]
    ELSE IF fields[i].Id # <<>>
    THEN visitParamsField(fields, i, params, visitParamValue(fields[i].Expr2))
    ELSE visitParamsFields(fields, i + 1, params)

visitParamsResult(component, r) ==
    IF r.err # "" THEN [params |-> EmptyParams, loc |-> NilLoc, err |-> r.err]
    ELSE [params |-> r.params, loc |-> component.Loc, err |-> ""]

visitParams(component) ==
    IF component.kind # "Object"
    THEN [params |-> EmptyParams, loc |-> NilLoc, err |-> ErrComponentType]
    ELSE visitParamsResult(component, visitParamsFields(component.Fields, 1, EmptyParams))

RECURSIVE visitAllParamsFields(_, _, _)

\* visitAllParams keeping the Params of the first component for every one
visitAllParamsField_FirstComponent(fields, i, params, p, id) ==
    IF p.err # "" THEN [all |-> EmptyParams, err |-> p.err]
    ELSE IF id.err # "" THEN [all |-> EmptyParams, err |-> id.err]
    ELSE visitAllParamsFields(fields, i + 1,
                              MapSet(params, id.id, visitParams(fields[1].Expr2).params))

visitAllParamsField(fields, i, params, p, id) ==
    IF p.err # "" THEN [all |-> EmptyParams, err |-> p.err]
    ELSE IF id.err # "" THEN [all |-> EmptyParams, err |-> id.err]
    ELSE visitAllParamsFields(fields, i + 1, MapSet(params, id.id, p.params))

\* the loop over components.Fields of visitAllParams
visitAllParamsFields(fields, i, params) ==
    IF i > Len(fields) THEN [all |-> params, err |-> ""]
    ELSE visitAllParamsField(fields, i, params, visitParams(fields[i].Expr2),
                             getFieldID(fields[i]))

visitAllParams(components) == visitAllParamsFields(components.Fields, 1, EmptyParams)

\* the keys of the model in lexicographic (byte) order
StringOrder == <<"a", "b", "bar", "foo", "foo-bar", "name", "replicas", "x", "z">>

\* sort.Strings over a set of keys
SortStrings(keys) == SelectSeq(StringOrder, LAMBDA k : k \in keys)

\* one "<indent><key>: <value>," line, as the lexer will read it back
ParamLine(indent, key, val) ==
    L(indent, LexText(key) \o <<P(":")>> \o LexText(val) \o <<P(",")>>)

writeParamsKeys(indent, params, keys) ==
    <<EmptyLine>>
      \o [i \in 1..Len(keys) |-> ParamLine(indent, keys[i], params[keys[i]])]
      \o (IF keys = <<>> THEN <<EmptyLine>> ELSE <<>>)
      \o <<EmptyLine>>

writeParams(indent, params) == writeParamsKeys(indent, params, SortStrings(DOMAIN params))

\* a < b in the byte order of Go strings
StringLess(a, b) ==
    \E i, j \in 1..Len(StringOrder) : i < j /\ StringOrder[i] = a /\ StringOrder[j] = b

RECURSIVE sortStrings(_)
\* sort.Strings left the slice as it was
sortStrings_Unsorted(keys) == keys

\* sort.Strings over the slice of keys the range over the map filled
sortStrings(keys) ==
    IF keys = <<>> THEN <<>>
    ELSE LET k == Head(keys)
             rest == sortStrings(Tail(keys))
         IN SelectSeq(rest, LAMBDA j : StringLess(j, k)) \o <<k>>
              \o SelectSeq(rest, LAMBDA j : ~StringLess(j, k))

\* writeParams with the order in which the range over the map yields the keys
writeParamsRange(indent, params, keys) == writeParamsKeys(indent, params, sortStrings(keys))

(***************************************************************************)
(* Component parameter store                                               *)
(***************************************************************************)
RECURSIVE findComponent(_, _, _)

findComponentAt(component, fields, i, h) ==
    IF h.err # "" THEN [idx |-> 0, err |-> h.err]
    ELSE IF h.has THEN [idx |-> i, err |-> ""]
    ELSE findComponent(component, fields, i + 1)

\* the loop `for _, field := range componentsNode.Fields` shared by
\* appendComponent, getComponentParams and getEnvironmentParams: the index of
\* the first field hasComponent accepts (0 if none), or the first error
findComponent(component, fields, i) ==
    IF i > Len(fields) THEN [idx |-> 0, err |-> ""]
    ELSE findComponentAt(component, fields, i, hasComponent(component, fields[i]))

\* the block "    <name>: {" + writeParams(6, params) + "    },"
ComponentBlock(component, params) ==
    Concat(Concat(<<L(4, LexText(SanitizeComponent(component)) \o <<P(":"), P("{")>>)>>,
                  writeParams(6, params)),
           <<L(4, <<P("}"), P(",")>>)>>)

\* the insertion without the shift of the tail: the block overwrites the line
\* at insertLine
InsertAt_Overwrite(lines, insertLine, block) ==
    Join(SliceTo(lines, insertLine) \o block \o SliceFrom(lines, insertLine + 1))

\* lines[insertLine] = block after shifting the tail by one; the block holds
\* newlines, so the joined text has its lines at that place
InsertAt(lines, insertLine, block) ==
    Join(SliceTo(lines, insertLine) \o block \o SliceFrom(lines, insertLine))

appendComponentAt(component, snippet, params, componentsNode, f) ==
    IF f.err # "" THEN [text |-> EmptyText, err |-> f.err]
    ELSE IF f.idx # 0 THEN [text |-> EmptyText, err |-> ErrDuplicate]
    ELSE [text |-> InsertAt(snippet, componentsNode.Loc.End.Line - 1,
                            ComponentBlock(component, params)),
          err |-> ""]

appendComponentIn(component, snippet, params, c) ==
    IF c.err # "" THEN [text |-> EmptyText, err |-> c.err]
    ELSE appendComponentAt(component, snippet, params, c.obj[1],
                           findComponent(component, c.obj[1].Fields, 1))

appendComponent(component, snippet, params) ==
    appendComponentIn(component, snippet, params, visitComponentsObj(snippet))

\* getComponentParamsAt that answers an absent component as getEnvironmentParams
\* does: empty Params and no error
getComponentParamsAt_EmptyWhenAbsent(componentsNode, f) ==
    IF f.err # "" THEN [params |-> EmptyParams, loc |-> NilLoc, err |-> f.err]
    ELSE IF f.idx # 0 THEN visitParams(componentsNode.Fields[f.idx].Expr2)
    ELSE [params |-> EmptyParams,
          loc |-> [Begin |-> [Line |-> componentsNode.Loc.End.Line - 1],
                   End |-> [Line |-> componentsNode.Loc.End.Line]],
          err |-> ""]

getComponentParamsAt(componentsNode, f) ==
    IF f.err # "" THEN [params |-> EmptyParams, loc |-> NilLoc, err |-> f.err]
    ELSE IF f.idx # 0 THEN visitParams(componentsNode.Fields[f.idx].Expr2)
    ELSE [params |-> EmptyParams, loc |-> NilLoc, err |-> ErrNotFound]

getComponentParamsIn(component, c) ==
    IF c.err # "" THEN [params |-> EmptyParams, loc |-> NilLoc, err |-> c.err]
    ELSE getComponentParamsAt(c.obj[1], findComponent(component, c.obj[1].Fields, 1))

getComponentParams(component, snippet) ==
    getComponentParamsIn(component, visitComponentsObj(snippet))

visitAllIn(c) ==
    IF c.err # "" THEN [all |-> EmptyParams, err |-> c.err]
    ELSE visitAllParams(c.obj[1])

getAllComponentParams(snippet) == visitAllIn(visitComponentsObj(snippet))

\* the loop copying every current key, those params holds included
MergeInto_CurrentWins(params, currentParams) ==
    [k \in DOMAIN params \cup DOMAIN currentParams |->
        IF k \in DOMAIN currentParams THEN currentParams[k] ELSE params[k]]

\* the loop that copies into params every current key params does not hold
MergeInto(params, currentParams) ==
    [k \in DOMAIN params \cup DOMAIN currentParams |->
        IF k \in DOMAIN params THEN params[k] ELSE currentParams[k]]

\* strings.Join(lines[:begin], "\n") + paramsSnippet + strings.Join(lines[end-1:], "\n")
Splice(lines, loc, paramsSnippet) ==
    Concat(Concat(Join(SliceTo(lines, loc.Begin.Line)), paramsSnippet),
           Join(SliceFrom(lines, loc.End.Line - 1)))

setComponentParamsMerged(snippet, loc, merged) ==
    [text |-> Splice(snippet, loc, writeParams(6, merged)), err |-> "", params |-> merged]

\* setComponentParamsFrom that returns the snippet it was given, and not "",
\* with the error
setComponentParamsFrom_SnippetOnError(snippet, params, cur) ==
    IF cur.err # "" THEN [text |-> snippet, err |-> cur.err, params |-> params]
    ELSE setComponentParamsMerged(snippet, cur.loc, MergeInto(params, cur.params))

setComponentParamsFrom(snippet, params, cur) ==
    IF cur.err # "" THEN [text |-> EmptyText, err |-> cur.err, params |-> params]
    ELSE setComponentParamsMerged(snippet, cur.loc, MergeInto(params, cur.params))

\* params is the caller's map: the result holds it as the call leaves it
setComponentParams(component, snippet, params) ==
    setComponentParamsFrom(snippet, params, getComponentParams(component, snippet))

(***************************************************************************)
(* Environment parameter store                                             *)
(***************************************************************************)
getEnvironmentParamsFound(v) ==
    [params |-> v.params, loc |-> v.loc, hasComponent |-> TRUE, err |-> v.err]

getEnvironmentParamsAt(n, f) ==
    IF f.err # ""
    THEN [params |-> EmptyParams, loc |-> NilLoc, hasComponent |-> FALSE, err |-> f.err]
    ELSE IF f.idx # 0
    THEN getEnvironmentParamsFound(visitParams(n.Fields[f.idx].Expr2))
    ELSE [params |-> EmptyParams,
          loc |-> [Begin |-> [Line |-> n.Loc.End.Line - 1],
                   End |-> [Line |-> n.Loc.End.Line]],
          hasComponent |-> FALSE, err |-> ""]

getEnvironmentParamsIn(component, c) ==
    IF c.err # ""
    THEN [params |-> EmptyParams, loc |-> NilLoc, hasComponent |-> FALSE, err |-> c.err]
    ELSE getEnvironmentParamsAt(c.obj[1], findComponent(component, c.obj[1].Fields, 1))

getEnvironmentParams(component, snippet) ==
    getEnvironmentParamsIn(component, visitComponentsObj(snippet))

getAllEnvironmentParams(snippet) == visitAllIn(visitComponentsObj(snippet))

\* the block "\n    <name> +: {" + writeParams(6, params) + "    },\n"
EnvironmentBlock(component, params) ==
    Concat(Concat(<<EmptyLine,
                    L(4, LexText(SanitizeComponent(component)) \o <<P("+:"), P("{")>>)>>,
                  writeParams(6, params)),
           <<L(4, <<P("}"), P(",")>>), EmptyLine>>)

setEnvironmentParamsMerged(component, snippet, cur, merged) ==
    [text |-> Splice(snippet, cur.loc,
                     IF ~cur.hasComponent THEN EnvironmentBlock(component, merged)
                     ELSE writeParams(6, merged)),
     err |-> "", params |-> merged]

setEnvironmentParamsFrom(component, snippet, params, cur) ==
    IF cur.err # "" THEN [text |-> EmptyText, err |-> cur.err, params |-> params]
    ELSE setEnvironmentParamsMerged(component, snippet, cur, MergeInto(params, cur.params))

setEnvironmentParams(component, snippet, params) ==
    setEnvironmentParamsFrom(component, snippet, params,
                             getEnvironmentParams(component, snippet))

\* the inner loop of mergeParamMaps: base[component][k] = v for every k, v of
\* params
MergeParams(baseParams, params) ==
    [k \in DOMAIN baseParams \cup DOMAIN params |->
        IF k \in DOMAIN params THEN params[k] ELSE baseParams[k]]

\* the base map as the loop over overrides leaves it
MergedBase(base, overrides) ==
    [c \in DOMAIN base \cup DOMAIN overrides |->
        IF c \notin DOMAIN base THEN overrides[c]
        ELSE IF c \in DOMAIN overrides THEN MergeParams(base[c], overrides[c])
        ELSE base[c]]

\* mergeParamMaps in which a key both maps hold keeps its base value
mergeParamMaps_BaseWins(base, overrides) ==
    [merged    |-> MergedBase(overrides, base),
     base      |-> MergedBase(overrides, base),
     overrides |-> overrides,
     returned  |-> "base"]

\* mergeParamMaps writes into base and returns it: merged is the returned
\* map, base and overrides are the caller's maps after the call, returned
\* names the caller's map that the returned map is
mergeParamMaps(base, overrides) ==
    [merged    |-> MergedBase(base, overrides),
     base      |-> MergedBase(base, overrides),
     overrides |-> overrides,
     returned  |-> "base"]

(***************************************************************************)
(* Documents                                                               *)
(***************************************************************************)
\* genComponentParamsContent: the component params file of a new application
genComponentParamsContent ==
    << L(0, <<P("{")>>),
       L(2, <<ID("global"), P(":"), P("{")>>),
       L(1, <<CMT("// User-defined global parameters")>>),
       L(1, <<CMT("// replicas: 4,")>>),
       L(2, <<P("}"), P(",")>>),
       L(2, <<ID("components"), P(":"), P("{")>>),
       L(4, <<CMT("// Component-level parameters")>>),
       L(4, <<CMT("// Each object below should correspond to a component")>>),
       L(2, <<P("}"), P(",")>>),
       L(0, <<P("}")>>),
       EmptyLine >>

\* generateParamsData: the params file of a new environment
generateParamsData ==
    << L(0, <<KW("local"), ID("params"), P("="), KW("import"),
              STR2("../../components/params.libsonnet"), P(";")>>),
       L(0, <<ID("params"), P("+"), P("{")>>),
       L(2, <<ID("components"), P("+:"), P("{")>>),
       L(4, <<CMT("// Insert component parameter overrides here. Ex:")>>),
       L(4, <<CMT("// guestbook +: {")>>),
       L(4, <<CMT("//   name: \"guestbook-dev\",")>>),
       L(4, <<CMT("//   replicas: params.global.replicas,")>>),
       L(4, <<CMT("// },")>>),
       L(2, <<P("}"), P(",")>>),
       L(0, <<P("}")>>),
       EmptyLine >>

\* files as a user may have written or edited them
\* { components: { foo: { replicas: 1, name: "a" } } }
DocOneLine ==
    << L(0, <<P("{"), ID("components"), P(":"), P("{"), ID("foo"), P(":"), P("{"),
              ID("replicas"), P(":"), NUM("1"), P(","), ID("name"), P(":"), STR2("a"),
              P("}"), P("}"), P("}")>>) >>

\* the component's object on one line inside a components object laid out on
\* several lines
DocInline ==
    << L(0, <<P("{")>>),
       L(2, <<ID("components"), P(":"), P("{")>>),
       L(4, <<ID("foo"), P(":"), P("{"), ID("a"), P(":"), NUM("1"), P(","),
              ID("b"), P(":"), NUM("2"), P("}"), P(",")>>),
       L(2, <<P("}"), P(",")>>),
       L(0, <<P("}")>>) >>

\* a component with a quoted key bound to an array, and a component with an
\* identifier key bound to an array
DocValues ==
    << L(0, <<P("{")>>),
       L(2, <<ID("components"), P(":"), P("{")>>),
       L(4, <<ID("foo"), P(":"), P("{")>>),
       L(6, <<STR2("a"), P(":"), P("["), NUM("1"), P("]"), P(",")>>),
       L(6, <<ID("replicas"), P(":"), NUM("1.0"), P(",")>>),
       L(4, <<P("}"), P(",")>>),
       L(4, <<STR2("foo-bar"), P(":"), P("{")>>),
       L(6, <<ID("x"), P(":"), P("["), NUM("1"), P("]"), P(",")>>),
       L(4, <<P("}"), P(",")>>),
       L(2, <<P("}"), P(",")>>),
       L(0, <<P("}")>>) >>

\* an environment file whose root object holds the component entries itself
DocEnvRoot ==
    << L(0, <<ID("params"), P("+"), P("{")>>),
       L(2, <<ID("foo"), P("+:"), P("{")>>),
       L(4, <<ID("x"), P(":"), NUM("1"), P(",")>>),
       L(2, <<P("}"), P(",")>>),
       L(0, <<P("}")>>) >>

\* an environment file whose components object is empty and on one line
DocEnvInline ==
    << L(0, <<ID("params"), P("+"), P("{")>>),
       L(2, <<ID("components"), P("+:"), P("{"), P("}"), P(",")>>),
       L(0, <<P("}")>>) >>

\* a components object whose first field has a computed key
DocComputed ==
    << L(0, <<P("{")>>),
       L(2, <<ID("components"), P(":"), P("{")>>),
       L(4, <<P("["), STR2("a"), P("]"), P(":"), P("{")>>),
       L(6, <<ID("x"), P(":"), NUM("1"), P(",")>>),
       L(4, <<P("}"), P(",")>>),
       L(4, <<ID("foo"), P(":"), P("{")>>),
       L(6, <<ID("x"), P(":"), NUM("1"), P(",")>>),
       L(4, <<P("}"), P(",")>>),
       L(2, <<P("}"), P(",")>>),
       L(0, <<P("}")>>) >>

\* a component with a scalar param under a quoted key
DocQuoted ==
    << L(0, <<P("{")>>),
       L(2, <<ID("components"), P(":"), P("{")>>),
       L(4, <<ID("foo"), P(":"), P("{")>>),
       L(6, <<STR2("a"), P(":"), NUM("1"), P(",")>>),
       L(6, <<ID("b"), P(":"), NUM("2"), P(",")>>),
       L(4, <<P("}"), P(",")>>),
       L(2, <<P("}"), P(",")>>),
       L(0, <<P("}")>>) >>

\* two objects bound to a field named components, in sibling fields
DocNested ==
    << L(0, <<P("{")>>),
       L(2, <<ID("a"), P(":"), P("{")>>),
       L(4, <<ID("components"), P(":"), P("{")>>),
       L(6, <<ID("foo"), P(":"), P("{")>>),
       L(8, <<ID("x"), P(":"), NUM("1"), P(",")>>),
       L(6, <<P("}"), P(",")>>),
       L(4, <<P("}"), P(",")>>),
       L(2, <<P("}"), P(",")>>),
       L(2, <<ID("b"), P(":"), P("{")>>),
       L(4, <<ID("components"), P(":"), P("{")>>),
       L(6, <<ID("bar"), P(":"), P("{")>>),
       L(8, <<ID("x"), P(":"), NUM("2"), P(",")>>),
       L(6, <<P("}"), P(",")>>),
       L(4, <<P("}"), P(",")>>),
       L(2, <<P("}"), P(",")>>),
       L(0, <<P("}")>>) >>

\* no field named components; imports, references and literals only
DocNoComponents ==
    << L(0, <<KW("local"), ID("x"), P("="), KW("import"), STR2("x.libsonnet"), P(";")>>),
       L(0, <<ID("x"), P("+"), P("{")>>),
       L(2, <<ID("global"), P(":"), P("["), KW("self"), P(","), P("$"), P(","),
              KW("null"), P(","), KW("true"), P(","), STR1("a"), P(","), NUM("1"),
              P("]"), P(",")>>),
       L(2, <<STR2("foo"), P(":"), P("{"), ID("x"), P(":"), NUM("1"), P("}"), P(",")>>),
       L(0, <<P("}")>>) >>

\* the field named components bound to a number
DocComponentsNumber ==
    << L(0, <<P("{")>>),
       L(2, <<ID("components"), P(":"), NUM("1"), P(",")>>),
       L(0, <<P("}")>>) >>

\* an environment file whose components field has a quoted key and is bound
\* to a number
DocEnvQuotedKey ==
    << L(0, <<ID("params"), P("+"), P("{")>>),
       L(2, <<STR2("components"), P(":"), NUM("1"), P(",")>>),
       L(0, <<P("}")>>) >>

\* an environment file whose components object holds a field with a
\* computed key
DocEnvComputed ==
    << L(0, <<ID("params"), P("+"), P("{")>>),
       L(2, <<ID("components"), P("+:"), P("{")>>),
       L(4, <<P("["), STR2("a"), P("]"), P(":"), P("{")>>),
       L(6, <<ID("x"), P(":"), NUM("1"), P(",")>>),
       L(4, <<P("}"), P(",")>>),
       L(2, <<P("}"), P(",")>>),
       L(0, <<P("}")>>) >>

\* the two files the manager keeps params in, and the texts each may hold
\* when a run starts
\* a parameter declared twice:
\* { components: { foo: { x: 1, x: 2, }, }, }
DocDupParam ==
    << L(0, <<P("{")>>),
       L(2, <<ID("components"), P(":"), P("{")>>),
       L(4, <<ID("foo"), P(":"), P("{")>>),
       L(6, <<ID("x"), P(":"), NUM("1"), P(",")>>),
       L(6, <<ID("x"), P(":"), NUM("2"), P(",")>>),
       L(4, <<P("}"), P(",")>>),
       L(2, <<P("}"), P(",")>>),
       L(0, <<P("}")>>) >>

componentParamsPath == "components/params.libsonnet"
paramsFileName      == "environments/default/params.libsonnet"

InitDocs(f) ==
    IF f = componentParamsPath
    THEN {genComponentParamsContent, DocOneLine, DocInline, DocValues, DocComputed,
          DocQuoted, DocNested, DocNoComponents, DocComponentsNumber, DocDupParam}
    ELSE {generateParamsData, DocEnvRoot, DocEnvInline, DocEnvQuotedKey, DocEnvComputed}

(***************************************************************************)
(* The environment manager.  A path is the sequence of its names below the *)
(* environments directory: <<>> is the directory itself (the "." of        *)
(* filepath.Dir), <<"us-east", "staging">> is us-east/staging.  A file     *)
(* system is the set of its directories and the set of its files; app is   *)
(* the set of environment specs app.yaml holds.                            *)
(***************************************************************************)
envFileName   == "main.jsonnet"
envParamsFile == "params.libsonnet"
baseLibsonnetFile == "base.libsonnet"
specFileName  == "spec.json"

ErrEnvExists   == "Environment already exists"
ErrEnvNotExist == "Environment does not exist"
ErrEnvName     == "Environment name is not valid"
ErrDatedModel  == "Environment's directory contains a dated model"
ErrLstat       == "lstat: no such file or directory"
ErrPathMissing == "path does not exist"
ErrLibData     == "cannot generate the lib data"

\* filepath.Dir
Dir(p) == SubSeq(p, 1, Len(p) - 1)
\* str.AppendToPath(p, name)
AppendToPath(p, name) == Append(p, name)
IsUnder(p, q) == Len(p) <= Len(q) /\ SubSeq(q, 1, Len(p)) = p

\* afero.Fs
MkdirAll(fs, p)  == [fs EXCEPT !.dirs = @ \cup {SubSeq(p, 1, n) : n \in 0..Len(p)}]
WriteFile(fs, p) == [fs EXCEPT !.files = @ \cup {p}]
RemoveAll(fs, p) == [dirs  |-> {d \in fs.dirs : ~IsUnder(p, d)},
                     files |-> {f \in fs.files : ~IsUnder(p, f)}]
Exists(fs, p)    == p \in fs.dirs \cup fs.files
DirExists(fs, p) == p \in fs.dirs
\* afero.IsEmpty of a directory that exists
IsEmpty(fs, p)   == \A q \in fs.dirs \cup fs.files : q = <<>> \/ Dir(q) # p

\* isValidName: no punctuation or spaces, no slash at either end
isValidName(name) == name # <<>> /\ \A i \in 1..Len(name) : name[i] # ""

\* app.GetEnvironmentSpec
GetEnvironmentSpec(app, name) == {e \in app : e.Name = name}

\* afero.Walk over the environments directory
errorOnSpecFile(fs) ==
    IF <<>> \notin fs.dirs THEN ErrLstat
    ELSE IF \E d \in fs.dirs : AppendToPath(d, specFileName) \in fs.files THEN ErrDatedModel
    ELSE ""

environmentExists(fs, app, name) ==
    IF errorOnSpecFile(fs) # "" THEN [exists |-> FALSE, err |-> errorOnSpecFile(fs)]
    ELSE [exists |-> GetEnvironmentSpec(app, name) # {}, err |-> ""]

\* a manager call returns the file system and app.yaml as it leaves them,
\* its error, and what it read
Ret(fs, app, err, got) == [fs |-> fs, app |-> app, err |-> err, got |-> got]

CreateEnvironmentFiles(fs, app, name) ==
    Ret(WriteFile(WriteFile(MkdirAll(fs, name), AppendToPath(name, envFileName)),
                  AppendToPath(name, envParamsFile)),
        app \cup {[Name |-> name, Path |-> name]}, "", {})

\* the lib data is generated below lib/, outside the environments directory
CreateEnvironmentChecked(fs, app, name, exists) ==
    IF exists.err # "" THEN Ret(fs, app, exists.err, {})
    ELSE IF exists.exists THEN Ret(fs, app, ErrEnvExists, {})
    ELSE IF ~isValidName(name) THEN Ret(fs, app, ErrEnvName, {})
    ELSE CreateEnvironmentFiles(fs, app, name)

CreateEnvironment(fs, app, name, libOk) ==
    IF ~libOk THEN Ret(fs, app, ErrLibData, {})
    ELSE CreateEnvironmentChecked(fs, app, name, environmentExists(fs, app, name))

GetEnvironments(fs, app) ==
    IF errorOnSpecFile(fs) # "" THEN Ret(fs, app, errorOnSpecFile(fs), {})
    ELSE Ret(fs, app, "", app)

GetEnvironment(fs, app, name) ==
    IF errorOnSpecFile(fs) # "" THEN Ret(fs, app, errorOnSpecFile(fs), {})
    ELSE IF GetEnvironmentSpec(app, name) = {} THEN Ret(fs, app, ErrEnvNotExist, {})
    ELSE Ret(fs, app, "", GetEnvironmentSpec(app, name))

RECURSIVE cleanEmptyParentDirsFrom(_, _)

\* cleanParent that removes the parent directory without asking whether it
\* is empty
cleanParent_NoEmptyCheck(fs, parentDir) ==
    IF ~Exists(fs, parentDir) THEN [fs |-> fs, err |-> ErrPathMissing]
    ELSE cleanEmptyParentDirsFrom(RemoveAll(fs, parentDir), parentDir)

\* one round of the loop of cleanEmptyParentDirs, parentDir already replaced
\* by its filepath.Dir
cleanParent(fs, parentDir) ==
    IF ~Exists(fs, parentDir) THEN [fs |-> fs, err |-> ErrPathMissing]
    ELSE IF IsEmpty(fs, parentDir)
    THEN cleanEmptyParentDirsFrom(RemoveAll(fs, parentDir), parentDir)
    ELSE cleanEmptyParentDirsFrom(fs, parentDir)

\* for parentDir != "." { parentDir = filepath.Dir(parentDir); ... }
cleanEmptyParentDirsFrom(fs, parentDir) ==
    IF parentDir = <<>> THEN [fs |-> fs, err |-> ""]
    ELSE cleanParent(fs, Dir(parentDir))

cleanEmptyParentDirs(fs, name) == cleanEmptyParentDirsFrom(fs, name)

\* the app spec written back is the one read at the start of the call
DeleteEnvironmentCleaned(app, c) == Ret(c.fs, app, c.err, {})

DeleteEnvironmentOf(fs, app, name, env) ==
    IF env.err # "" THEN Ret(fs, app, env.err, {})
    ELSE DeleteEnvironmentCleaned(app,
             cleanEmptyParentDirs(RemoveAll(fs, (CHOOSE e \in env.got : TRUE).Path), name))

DeleteEnvironment(fs, app, name) ==
    DeleteEnvironmentOf(fs, app, name, GetEnvironment(fs, app, name))

\* the primary files of an environment
envPaths == <<envFileName, envParamsFile>>

ErrEnvUpdate   == "Failed to update; environment exists"
ErrRename      == "rename: no such file or directory"
ErrFileExists  == "already exists"

\* filepath.HasPrefix compares the strings; no name of the model is a proper
\* string prefix of another name, so it is the prefix test on paths
HasPrefix(p, prefix) == IsUnder(prefix, p)

\* what is at or below old, put at or below new
Moved(paths, old, new) ==
    {q \in paths : ~IsUnder(old, q)}
      \cup {new \o SubSeq(q, Len(old) + 1, Len(q)) : q \in {e \in paths : IsUnder(old, e)}}

\* appFS.Rename
Rename(fs, old, new) ==
    IF ~Exists(fs, old) \/ Dir(new) \notin fs.dirs THEN [fs |-> fs, err |-> ErrRename]
    ELSE IF Exists(fs, new) /\ ~IsEmpty(fs, new) THEN [fs |-> fs, err |-> ErrFileExists]
    ELSE [fs  |-> [dirs |-> Moved(fs.dirs, old, new), files |-> Moved(fs.files, old, new)],
          err |-> ""]

\* the old directory is removed if the move left it empty
tryMvEnvDirClean(fs, dirPathOld) ==
    IF ~Exists(fs, dirPathOld) THEN [fs |-> fs, err |-> ErrPathMissing]
    ELSE IF IsEmpty(fs, dirPathOld) THEN [fs |-> RemoveAll(fs, dirPathOld), err |-> ""]
    ELSE [fs |-> fs, err |-> ""]

RECURSIVE tryMvEnvDirFiles(_, _, _, _)
\* the files are renamed one by one
tryMvEnvDirFile(r, dirPathOld, dirPathNew, i) ==
    IF r.err # "" THEN r ELSE tryMvEnvDirFiles(r.fs, dirPathOld, dirPathNew, i + 1)

tryMvEnvDirFiles(fs, dirPathOld, dirPathNew, i) ==
    IF i > Len(envPaths) THEN tryMvEnvDirClean(fs, dirPathOld)
    ELSE tryMvEnvDirFile(Rename(fs, AppendToPath(dirPathOld, envPaths[i]),
                                AppendToPath(dirPathNew, envPaths[i])),
                         dirPathOld, dirPathNew, i)

tryMvEnvDir(fs, dirPathOld, dirPathNew) ==
    IF \E i \in 1..Len(envPaths) : Exists(fs, AppendToPath(dirPathNew, envPaths[i]))
    THEN [fs |-> fs, err |-> ErrFileExists]
    ELSE tryMvEnvDirFiles(fs, dirPathOld, dirPathNew, 1)

\* UpdateEnvironmentSpec on the app spec in memory
UpdateEnvironmentSpec(app, name, desiredName) ==
    {e \in app : e.Name # name} \cup {[Name |-> desiredName, Path |-> desiredName]}

\* the move of the directory; the error of tryMvEnvDir is dropped
SetEnvironmentMove(fs, pathOld, pathNew) ==
    IF DirExists(fs, pathNew)
    THEN [fs |-> tryMvEnvDir(fs, pathOld, pathNew).fs, err |-> ""]
    ELSE IF HasPrefix(pathNew, pathOld)
    THEN [fs |-> tryMvEnvDir(MkdirAll(fs, pathNew), pathOld, pathNew).fs, err |-> ""]
    ELSE Rename(MkdirAll(fs, Dir(pathNew)), pathOld, pathNew)

\* the app spec is written only when the parents were cleaned
SetEnvironmentCleaned(app, appSpec, c) ==
    IF c.err # "" THEN Ret(c.fs, app, c.err, {}) ELSE Ret(c.fs, appSpec, "", {})

SetEnvironmentMoved(app, appSpec, name, mv) ==
    IF mv.err # "" THEN Ret(mv.fs, app, mv.err, {})
    ELSE SetEnvironmentCleaned(app, appSpec, cleanEmptyParentDirs(mv.fs, name))

SetEnvironmentOf(fs, app, name, desiredName, current) ==
    IF current.err # "" THEN Ret(fs, app, current.err, {})
    ELSE SetEnvironmentMoved(app, UpdateEnvironmentSpec(app, name, desiredName), name,
                             SetEnvironmentMove(fs, name, desiredName))

SetEnvironmentChecked(fs, app, name, desiredName, desiredExists) ==
    IF desiredExists.err # "" THEN Ret(fs, app, desiredExists.err, {})
    ELSE IF desiredExists.exists THEN Ret(fs, app, ErrEnvUpdate, {})
    ELSE SetEnvironmentOf(fs, app, name, desiredName, GetEnvironment(fs, app, name))

SetEnvironment(fs, app, name, desiredName) ==
    IF name = desiredName \/ desiredName = <<>> THEN Ret(fs, app, "", {})
    ELSE IF ~isValidName(desiredName) THEN Ret(fs, app, ErrEnvName, {})
    ELSE SetEnvironmentChecked(fs, app, name, desiredName,
                               environmentExists(fs, app, desiredName))

(***************************************************************************)
(* initManager.  Here a path is the sequence of its names below the        *)
(* directory `ks init` is run in, the application's root included.         *)
(***************************************************************************)
ksonnetDir      == ".ksonnet"
libDir          == "lib"
componentsDir   == "components"
environmentsDir == "environments"
vendorDir       == "vendor"
componentParamsFile == "params.libsonnet"
defaultEnvName  == "default"
metadataDirName == ".metadata"

ErrClusterSpec == "cannot get the cluster specification"
ErrAppExists   == "Could not create app; directory already exists"
ErrNotDir      == "mkdir: not a directory"

newManager(rootPath) ==
    [rootPath         |-> rootPath,
     ksonnetPath      |-> AppendToPath(rootPath, ksonnetDir),
     libPath          |-> AppendToPath(rootPath, libDir),
     componentsPath   |-> AppendToPath(rootPath, componentsDir),
     environmentsPath |-> AppendToPath(rootPath, environmentsDir),
     vendorDir        |-> AppendToPath(rootPath, vendorDir),
     componentParamsPath |-> rootPath \o <<componentsDir, componentParamsFile>>,
     baseLibsonnetPath   |-> rootPath \o <<environmentsDir, baseLibsonnetFile>>]

\* generateKsonnetLibData: spec.data() may fail (a file that is missing, a
\* cluster that answers 404), and so may json.Unmarshal and ksonnet.Emit;
\* none of them writes to the application's file system
generateKsonnetLibData(outcome) ==
    CASE outcome = "data" -> ErrClusterSpec
      [] outcome \in {"unmarshal", "emit"} -> ErrLibData
      [] OTHER -> ""

\* a name on the way to p is a file
UnderFile(fs, p) == \E n \in 1..Len(p) : SubSeq(p, 1, n) \in fs.files

RECURSIVE MkdirAlls(_, _), WriteFiles(_, _)
MkdirAlls(fs, paths) ==
    IF paths = <<>> THEN fs ELSE MkdirAlls(MkdirAll(fs, Head(paths)), Tail(paths))

WriteFiles(fs, paths) ==
    IF paths = <<>> THEN fs ELSE WriteFiles(WriteFile(fs, Head(paths)), Tail(paths))

createAppDirTree(fs, m) ==
    IF DirExists(fs, m.rootPath) THEN [fs |-> fs, err |-> ErrAppExists]
    ELSE IF UnderFile(fs, m.rootPath) THEN [fs |-> fs, err |-> ErrNotDir]
    ELSE [fs  |-> WriteFiles(MkdirAlls(fs, <<m.rootPath, m.ksonnetPath, m.libPath,
                                             m.componentsPath, m.environmentsPath,
                                             m.vendorDir>>),
                             <<m.componentParamsPath, m.baseLibsonnetPath>>),
          err |-> ""]

\* createEnvironment as initManager calls it: an environment is a directory
\* below environments/ that holds a spec.json
createEnvironment(fs, m, name) ==
    LET envPath == AppendToPath(m.environmentsPath, name)
        metadataPath == AppendToPath(envPath, metadataDirName)
    IN IF AppendToPath(envPath, specFileName) \in fs.files
       THEN [fs |-> fs, err |-> ErrEnvExists]
       ELSE [fs  |-> WriteFiles(MkdirAlls(fs, <<envPath, metadataPath>>),
                                <<AppendToPath(metadataPath, "swagger.json"),
                                  AppendToPath(metadataPath, "k8s.libsonnet"),
                                  AppendToPath(metadataPath, "k.libsonnet"),
                                  AppendToPath(envPath, "default.jsonnet"),
                                  AppendToPath(envPath, "params.jsonnet"),
                                  AppendToPath(envPath, specFileName)>>),
             err |-> ""]

initManagerTree(t, m, serverURI) ==
    IF t.err # "" THEN t
    ELSE IF serverURI THEN createEnvironment(t.fs, m, defaultEnvName)
    ELSE t

\* initManager with the directory structure made first
initManager_TreeFirst(fs, rootPath, outcome, serverURI) ==
    IF generateKsonnetLibData(outcome) # ""
    THEN [fs  |-> createAppDirTree(fs, newManager(rootPath)).fs,
          err |-> generateKsonnetLibData(outcome)]
    ELSE initManagerTree(createAppDirTree(fs, newManager(rootPath)), newManager(rootPath),
                         serverURI)

initManager(fs, rootPath, outcome, serverURI) ==
    IF generateKsonnetLibData(outcome) # ""
    THEN [fs |-> fs, err |-> generateKsonnetLibData(outcome)]
    ELSE initManagerTree(createAppDirTree(fs, newManager(rootPath)), newManager(rootPath),
                         serverURI)

(***************************************************************************)
(* Inputs                                                                  *)
(***************************************************************************)
ComponentNames == {"foo", "bar", "foo-bar"}

ParamsInputs ==
    { EmptyParams,
      [x |-> "1"],
      [x |-> "2"],
      [replicas |-> "2"],
      [b |-> "3", z |-> "9"] }

\* component -> Params maps given to mergeParamMaps
ParamMapInputs ==
    { EmptyParams,
      [foo |-> [x |-> "1", a |-> "1"], bar |-> [replicas |-> "2"]],
      ("foo-bar" :> [x |-> "9"]) @@ [foo |-> [x |-> "2", b |-> "3"]] }

\* environment names: default, us-east, us-east/staging, eu/west/dev and the
\* invalid prod/
EnvNames ==
    { <<"default">>, <<"us-east">>, <<"us-east", "staging">>, <<"eu", "west", "dev">>,
      <<"prod", "">> }

\* files a user keeps below the environments directory
UserFiles == {"notes.md", specFileName}

\* the Params, indents and map iteration orders given to writeParams
WriteKeys   == {"b", "foo-bar", "x"}
WriteValues == {"1", "\"a\""}
WriteParamsInputs == UNION { [K -> WriteValues] : K \in SUBSET WriteKeys }
Indents == {0, 2, 6}
RangeOrders(params) ==
    { o \in [1..Cardinality(DOMAIN params) -> DOMAIN params] :
        \A i, j \in DOMAIN o : o[i] = o[j] => i = j }

\* the Params of the calls on the generated component params file: as
\* ParamsInputs, and a number and a string written as a user may give them
RefParamsInputs ==
    { EmptyParams,
      [x |-> "1"],
      [x |-> "2"],
      [b |-> "3", z |-> "9"],
      [x |-> "1.0"],
      [name |-> "\"a\"", replicas |-> "2"] }

\* the directories `ks init` is given, what becomes of the cluster
\* specification, and what a user may have put in the way
RootPaths == {<<"app">>, <<"work", "app">>, <<"demo">>}
SpecOutcomes == {"ok", "data", "unmarshal", "emit"}

\* the number of calls in a run
MaxOps == 2

\* the number of manager calls in a run
MaxEnvOps == 3

(***************************************************************************)
(* The state machine: a params file, and the calls the manager makes on    *)
(* its text.  The component operations are applied to the component params *)
(* file and the environment operations to an environment's params file; a  *)
(* mutating call that succeeds is followed by the write of the returned    *)
(* text to the file.                                                       *)
(***************************************************************************)
VARIABLES file, snippet, last, nops

\* the environments directory tree, the environments of app.yaml, and the
\* calls made on the environment manager
VARIABLES fs, app, elast, eops

paramsVars == <<file, snippet, last, nops>>
envVars    == <<fs, app, elast, eops>>
vars == <<file, snippet, last, nops, fs, app, elast, eops>>

\* createAppDirTree without the write of base.libsonnet
InitTree_NoBaseLibsonnet == [dirs |-> {<<>>}, files |-> {}]

\* createAppDirTree: the environments directory and its base.libsonnet
InitTree == [dirs |-> {<<>>}, files |-> {<<baseLibsonnetFile>>}]

NoEnvCall == [op |-> "none", name |-> <<>>, err |-> "", got |-> {},
              pre |-> InitTree, preApp |-> {}]

NoCall == [op |-> "none", component |-> "", params |-> EmptyParams, pre |-> EmptyText,
           err |-> "", text |-> EmptyText, got |-> EmptyParams, all |-> EmptyParams,
           after |-> EmptyParams, base |-> EmptyParams, overrides |-> EmptyParams,
           afterBase |-> EmptyParams, afterOverrides |-> EmptyParams, returned |-> "",
           indent |-> 0, keys |-> <<>>]

Init ==
    /\ file \in {componentParamsPath, paramsFileName}
    /\ snippet \in InitDocs(file)
    /\ last = NoCall
    /\ nops = 0
    /\ fs = InitTree
    /\ app = {}
    /\ elast = NoEnvCall
    /\ eops = 0

Call(f, rec) ==
    /\ file = f
    /\ nops < MaxOps
    /\ nops' = nops + 1
    /\ last' = rec
    /\ UNCHANGED file
    /\ UNCHANGED envVars

Mutate(f, op, component, params, r, after) ==
    /\ Call(f, [NoCall EXCEPT !.op = op, !.component = component, !.params = params,
                              !.pre = snippet, !.err = r.err, !.text = r.text,
                              !.after = after])
    /\ snippet' = IF r.err = "" THEN r.text ELSE snippet

\* a mutating call that changes the map it is given
MutateParams(f, op, component, params, r) == Mutate(f, op, component, params, r, r.params)

Read(f, op, component, r) ==
    /\ Call(f, [NoCall EXCEPT !.op = op, !.component = component, !.pre = snippet,
                              !.err = r.err, !.got = r.params])
    /\ UNCHANGED snippet

ReadAll(f, op, r) ==
    /\ Call(f, [NoCall EXCEPT !.op = op, !.pre = snippet, !.err = r.err, !.all = r.all])
    /\ UNCHANGED snippet

AppendComponent ==
    \E c \in ComponentNames, p \in ParamsInputs :
        Mutate(componentParamsPath, "appendComponent", c, p,
               appendComponent(c, snippet, p), p)

SetComponentParams ==
    \E c \in ComponentNames, p \in ParamsInputs :
        MutateParams(componentParamsPath, "setComponentParams", c, p,
                     setComponentParams(c, snippet, p))

GetComponentParams ==
    \E c \in ComponentNames :
        Read(componentParamsPath, "getComponentParams", c, getComponentParams(c, snippet))

GetAllComponentParams ==
    ReadAll(componentParamsPath, "getAllComponentParams", getAllComponentParams(snippet))

SetEnvironmentParams ==
    \E c \in ComponentNames, p \in ParamsInputs :
        MutateParams(paramsFileName, "setEnvironmentParams", c, p,
                     setEnvironmentParams(c, snippet, p))

GetEnvironmentParams ==
    \E c \in ComponentNames :
        Read(paramsFileName, "getEnvironmentParams", c, getEnvironmentParams(c, snippet))

GetAllEnvironmentParams ==
    ReadAll(paramsFileName, "getAllEnvironmentParams", getAllEnvironmentParams(snippet))

\* GetEnvironmentParams of the manager merges the params read from the two
\* files
Merge(f, base, overrides, r) ==
    /\ Call(f, [NoCall EXCEPT !.op = "mergeParamMaps", !.pre = snippet,
                              !.base = base, !.overrides = overrides, !.all = r.merged,
                              !.afterBase = r.base, !.afterOverrides = r.overrides,
                              !.returned = r.returned])
    /\ UNCHANGED snippet

MergeParamMaps ==
    \E base \in ParamMapInputs, overrides \in ParamMapInputs :
        Merge(paramsFileName, base, overrides, mergeParamMaps(base, overrides))

Next ==
    \/ AppendComponent
    \/ SetComponentParams
    \/ GetComponentParams
    \/ GetAllComponentParams
    \/ SetEnvironmentParams
    \/ GetEnvironmentParams
    \/ GetAllEnvironmentParams
    \/ MergeParamMaps

Spec == Init /\ [][Next]_vars

(***************************************************************************)
(* The state machine of the environment manager: the project as            *)
(* initManager leaves it, with or without the default environment, and     *)
(* the calls made on it.                                                   *)
(***************************************************************************)
EnvInit ==
    /\ \E serverURI \in BOOLEAN :
          /\ fs = IF serverURI THEN CreateEnvironmentFiles(InitTree, {}, <<"default">>).fs
                   ELSE InitTree
          /\ app = IF serverURI THEN CreateEnvironmentFiles(InitTree, {}, <<"default">>).app
                    ELSE {}
    /\ elast = NoEnvCall
    /\ eops = 0
    /\ file = paramsFileName
    /\ snippet = generateParamsData
    /\ last = NoCall
    /\ nops = 0

EnvCall(op, name, r) ==
    /\ eops < MaxEnvOps
    /\ eops' = eops + 1
    /\ elast' = [op |-> op, name |-> name, err |-> r.err, got |-> r.got,
                 pre |-> fs, preApp |-> app]
    /\ fs' = r.fs
    /\ app' = r.app
    /\ UNCHANGED paramsVars

CreateEnvironmentCall ==
    \E name \in EnvNames, libOk \in BOOLEAN :
        EnvCall("CreateEnvironment", name, CreateEnvironment(fs, app, name, libOk))

DeleteEnvironmentCall ==
    \E name \in EnvNames :
        EnvCall("DeleteEnvironment", name, DeleteEnvironment(fs, app, name))

GetEnvironmentCall ==
    \E name \in EnvNames :
        EnvCall("GetEnvironment", name, GetEnvironment(fs, app, name))

GetEnvironmentsCall ==
    EnvCall("GetEnvironments", <<>>, GetEnvironments(fs, app))

SetEnvironmentCall ==
    \E name \in EnvNames, desiredName \in EnvNames \cup {<<>>} :
        EnvCall("SetEnvironment", name, SetEnvironment(fs, app, name, desiredName))

\* the user writes a file of theirs into a directory of the tree
UserWriteFile ==
    \E d \in fs.dirs, f \in UserFiles :
        EnvCall("UserWriteFile", d, Ret(WriteFile(fs, AppendToPath(d, f)), app, "", {}))

EnvNext ==
    \/ CreateEnvironmentCall
    \/ DeleteEnvironmentCall
    \/ GetEnvironmentCall
    \/ GetEnvironmentsCall
    \/ SetEnvironmentCall
    \/ UserWriteFile

EnvSpec == EnvInit /\ [][EnvNext]_vars

(***************************************************************************)
(* `ks init`: initManager on a working directory that may already hold      *)
(* directories and files of the user's.                                    *)
(***************************************************************************)
InitInit ==
    /\ fs = [dirs |-> {<<>>}, files |-> {}]
    /\ app = {}
    /\ elast = NoEnvCall
    /\ eops = 0
    /\ file = componentParamsPath
    /\ snippet = genComponentParamsContent
    /\ last = NoCall
    /\ nops = 0

InitCall(op, name, outcome, serverURI, r) ==
    /\ eops < MaxEnvOps
    /\ eops' = eops + 1
    /\ elast' = [op |-> op, name |-> name, err |-> r.err, got |-> {}, pre |-> fs,
                 preApp |-> app, outcome |-> outcome, serverURI |-> serverURI]
    /\ fs' = r.fs
    /\ UNCHANGED app
    /\ UNCHANGED paramsVars

InitManagerCall ==
    \E rootPath \in RootPaths, outcome \in SpecOutcomes, serverURI \in BOOLEAN :
        InitCall("initManager", rootPath, outcome, serverURI,
                 initManager(fs, rootPath, outcome, serverURI))

\* the user makes a directory in the working directory
UserMkdir ==
    \E p \in RootPaths :
        /\ ~UnderFile(fs, p)
        /\ InitCall("mkdir", p, "ok", FALSE, [fs |-> MkdirAll(fs, p), err |-> ""])

\* the user writes a file in a directory there is
UserTouch ==
    \E p \in RootPaths :
        /\ Dir(p) \in fs.dirs /\ p \notin fs.dirs
        /\ InitCall("touch", p, "ok", FALSE, [fs |-> WriteFile(fs, p), err |-> ""])

InitNext ==
    \/ InitManagerCall
    \/ UserMkdir
    \/ UserTouch

InitSpec == InitInit /\ [][InitNext]_vars

(***************************************************************************)
(* The component params file as `ks init` generates it, under              *)
(* appendComponent calls with names the file does not hold and             *)
(* setComponentParams calls on names it holds.                             *)
(***************************************************************************)
RefInit ==
    /\ file = componentParamsPath
    /\ snippet = genComponentParamsContent
    /\ last = NoCall
    /\ nops = 0
    /\ fs = InitTree
    /\ app = {}
    /\ elast = NoEnvCall
    /\ eops = 0

RefAppendComponent ==
    \E c \in ComponentNames, p \in RefParamsInputs :
        /\ c \notin DOMAIN getAllComponentParams(snippet).all
        /\ Mutate(componentParamsPath, "appendComponent", c, p,
                  appendComponent(c, snippet, p), p)

RefSetComponentParams ==
    \E c \in ComponentNames, p \in RefParamsInputs :
        /\ c \in DOMAIN getAllComponentParams(snippet).all
        /\ MutateParams(componentParamsPath, "setComponentParams", c, p,
                        setComponentParams(c, snippet, p))

RefNext ==
    \/ RefAppendComponent
    \/ RefSetComponentParams

RefSpec == RefInit /\ [][RefNext]_vars

(***************************************************************************)
(* writeParams on its own: the Params of a call, its indent and the order  *)
(* in which the range over the Go map yields the keys are chosen freely.   *)
(***************************************************************************)
WriteInit ==
    /\ file = componentParamsPath
    /\ snippet = genComponentParamsContent
    /\ last = NoCall
    /\ nops = 0
    /\ fs = InitTree
    /\ app = {}
    /\ elast = NoEnvCall
    /\ eops = 0

WriteParams ==
    \E indent \in Indents, params \in WriteParamsInputs :
        \E keys \in RangeOrders(params) :
            /\ Call(componentParamsPath,
                    [NoCall EXCEPT !.op = "writeParams", !.params = params,
                                   !.indent = indent, !.keys = keys, !.pre = snippet,
                                   !.text = writeParamsRange(indent, params, keys)])
            /\ UNCHANGED snippet

WriteNext == WriteParams

WriteSpec == WriteInit /\ [][WriteNext]_vars

(***************************************************************************)
(* Vocabulary of the properties                                            *)
(***************************************************************************)
Called(op)    == last.op = op
Succeeded(op) == last.op = op /\ last.err = ""

\* the components object of a text in which it is located
ComponentsOf(s) == visitComponentsObj(s).obj[1]
Located(s)      == visitComponentsObj(s).err = ""

\* the keys of an object's fields
KeysOf(obj) == {getFieldID(obj.Fields[i]).id : i \in 1..Len(obj.Fields)}

\* the mapping a merge of incoming over current is expected to give
MergeOf(incoming, current) ==
    [k \in DOMAIN incoming \cup DOMAIN current |->
        IF k \in DOMAIN incoming THEN incoming[k] ELSE current[k]]

\* the lines "      key: value," of a Params, keys ascending; one empty line
\* when there is no key
RenderedParams(params) ==
    LET keys == SortStrings(DOMAIN params) IN
    IF keys = <<>> THEN <<EmptyLine>>
    ELSE [i \in 1..Len(keys) |->
            L(6, LexText(keys[i]) \o <<P(":")>> \o LexText(params[keys[i]]) \o <<P(",")>>)]

\* the key of a component entry as it is written
RenderedName(c) == IF c \in Identifiers THEN <<ID(c)>> ELSE <<STR2(c)>>

ScalarKinds == {"LiteralString", "LiteralNumber", "LiteralBoolean"}

\* component objects of the components object that hold a field whose value
\* is not a scalar literal
HasUnsupportedValue(obj) ==
    obj.kind = "Object" /\ \E i \in 1..Len(obj.Fields) : obj.Fields[i].Expr2.kind \notin ScalarKinds

\* the text holds a field named components
HasComponentsField(s) ==
    \E n \in 1..Len(s) : \E j \in 1..Len(s[n].toks) :
        /\ s[n].toks[j] = ID(componentsID)
        /\ j < Len(s[n].toks)
        /\ s[n].toks[j + 1] \in {P(":"), P("+:")}

EnvOps == {"getEnvironmentParams", "getAllEnvironmentParams", "setEnvironmentParams"}

(***************************************************************************)
(* C1  Append/Get round trip                                               *)
(***************************************************************************)
\* C1: whenever the components object of s is located and c is not one of its
\* keys, appendComponent(c, s, p) succeeds and getComponentParams(c, result)
\* returns exactly p.
C1_AppendGetRoundTrip ==
    (Called("appendComponent") /\ Located(last.pre)
        /\ last.component \notin KeysOf(ComponentsOf(last.pre)))
    => /\ last.err = ""
       /\ LET g == getComponentParams(last.component, last.text) IN
          g.err = "" /\ g.params = last.params

(***************************************************************************)
(* C2  Set merge semantics                                                 *)
(***************************************************************************)
\* C2: whenever getComponentParams(c, s) succeeds with cur, the Params read
\* back from setComponentParams(c, s, p) are p's keys with p's values and the
\* other keys of cur with cur's values.
C2_SetMergeSemantics ==
    (Called("setComponentParams") /\ getComponentParams(last.component, last.pre).err = "")
    => /\ last.err = ""
       /\ LET g == getComponentParams(last.component, last.text) IN
          /\ g.err = ""
          /\ g.params = MergeOf(last.params,
                                getComponentParams(last.component, last.pre).params)

(***************************************************************************)
(* C3  Duplicate rejection                                                 *)
(***************************************************************************)
\* C3: whenever c is a key of getAllComponentParams(s), appendComponent(c, s, p)
\* fails with the duplicate-component error, returns no text and the file
\* keeps its text.
C3_DuplicateRejection ==
    (Called("appendComponent")
        /\ getAllComponentParams(last.pre).err = ""
        /\ last.component \in DOMAIN getAllComponentParams(last.pre).all)
    => /\ last.err = ErrDuplicate
       /\ last.text = EmptyText
       /\ snippet = last.pre

\* an append of a component that getAllComponentParams lists was rejected
C3_Witness ==
    /\ Called("appendComponent")
    /\ getAllComponentParams(last.pre).err = ""
    /\ last.component \in DOMAIN getAllComponentParams(last.pre).all
    /\ last.err = ErrDuplicate

(***************************************************************************)
(* C4  Environment create-then-update                                      *)
(***************************************************************************)
\* the lines of the text that open a merge-patch entry for c
EntryLines(s, c) ==
    {n \in 1..Len(s) :
        /\ Len(s[n].toks) > Len(RenderedName(c))
        /\ SubSeq(s[n].toks, 1, Len(RenderedName(c)) + 1) = RenderedName(c) \o <<P("+:")>>}

\* C4: on an environment document with no entry for c, setEnvironmentParams(c,
\* s, {x:1}) succeeds, the components object of the result holds c with x: 1
\* and every entry it held before; a second setEnvironmentParams(c, result,
\* {x:2}) finds c (update branch), keeps the number of lines, leaves c with
\* x: 2 and the document with exactly one entry for c.
C4_EnvCreateThenUpdate ==
    (Called("setEnvironmentParams") /\ last.params = [x |-> "1"]
        /\ getEnvironmentParams(last.component, last.pre).err = ""
        /\ ~getEnvironmentParams(last.component, last.pre).hasComponent)
    => /\ last.err = ""
       /\ LET before == getAllEnvironmentParams(last.pre)
              after  == getAllEnvironmentParams(last.text)
              second == setEnvironmentParams(last.component, last.text, [x |-> "2"])
          IN /\ after.err = before.err
             /\ before.err = "" =>
                    /\ DOMAIN after.all = DOMAIN before.all \cup {last.component}
                    /\ after.all[last.component] = [x |-> "1"]
                    /\ \A k \in DOMAIN before.all : after.all[k] = before.all[k]
             /\ getEnvironmentParams(last.component, last.text).hasComponent
             /\ second.err = ""
             /\ Len(second.text) = Len(last.text)
             /\ getEnvironmentParams(last.component, second.text).params = [x |-> "2"]
             /\ Cardinality(EntryLines(second.text, last.component)) = 1

(***************************************************************************)
(* C5  Unsupported value rejection                                         *)
(***************************************************************************)
\* C5: if a field of c's object has a value that is not a String, Number or
\* Boolean literal, getComponentParams(c, s) fails with the unsupported-value
\* error, and getAllComponentParams(s) fails whenever some component has such
\* a field.
C5_UnsupportedValueRejection ==
    /\ (Called("getComponentParams") /\ Located(last.pre)
           /\ \E i \in 1..Len(ComponentsOf(last.pre).Fields) :
                 /\ getFieldID(ComponentsOf(last.pre).Fields[i]).id = last.component
                 /\ HasUnsupportedValue(ComponentsOf(last.pre).Fields[i].Expr2))
       => last.err = ErrUnsupportedValue
    /\ (Called("getAllComponentParams") /\ Located(last.pre)
           /\ \E i \in 1..Len(ComponentsOf(last.pre).Fields) :
                 HasUnsupportedValue(ComponentsOf(last.pre).Fields[i].Expr2))
       => last.err # ""

(***************************************************************************)
(* C6  Concrete scenario                                                   *)
(***************************************************************************)
\* C6: on the one-line source { components: { foo: { replicas: 1, name: "a" } } }
\* appendComponent("bar", source, {replicas: "2"}) succeeds, the components
\* object of the result holds foo with its params and bar with replicas: 2, and
\* the source line of foo is still in the result.
C6_ConcreteScenario ==
    (Called("appendComponent") /\ last.pre = DocOneLine /\ last.component = "bar"
        /\ last.params = [replicas |-> "2"])
    => /\ last.err = ""
       /\ getAllComponentParams(last.text) =
             [all |-> [foo |-> [replicas |-> "1", name |-> "\"a\""],
                       bar |-> [replicas |-> "2"]],
              err |-> ""]
       /\ \E n \in 1..Len(last.text) : last.text[n] = DocOneLine[1]

(***************************************************************************)
(* C7  Set frame                                                           *)
(***************************************************************************)
\* C7: a successful setComponentParams(c, s, p) returns s with one range of
\* lines replaced by the re-rendered block: the lines before the range and
\* the lines from its end on are those of s, in order, each exactly once.
C7_SetFrame ==
    Succeeded("setComponentParams")
    => \E i \in 0..Len(last.pre) : \E j \in i..Len(last.pre) :
          last.text = SubSeq(last.pre, 1, i) \o RenderedParams(last.after)
                        \o SubSeq(last.pre, j + 1, Len(last.pre))

C9_IdempotentReRender ==
    Succeeded("setComponentParams")
    => LET again == setComponentParams(last.component, last.text, last.params) IN
       again.err = "" /\ again.text = last.text

AbsentOps == {"getComponentParams", "setComponentParams", "setEnvironmentParams"}

\* the components object of the text is located and none of its keys is c
Absent(s, c) == Located(s) /\ c \notin KeysOf(ComponentsOf(s))

\* every field of the components object has an identifier or a quoted key
PlainKeys(s) ==
    \A i \in 1..Len(ComponentsOf(s).Fields) : getFieldID(ComponentsOf(s).Fields[i]).err = ""

AbsentOutcome ==
    /\ Called("getComponentParams") => (last.err = ErrNotFound /\ last.got = EmptyParams)
    /\ Called("setComponentParams")
          => (last.err = ErrNotFound /\ last.text = EmptyText /\ snippet = last.pre)
    /\ Called("setEnvironmentParams")
          => /\ last.err = ""
             /\ Cardinality(EntryLines(last.text, last.component))
                   = Cardinality(EntryLines(last.pre, last.component)) + 1

C12_MergeParamMaps ==
    Called("mergeParamMaps")
    => /\ DOMAIN last.all = DOMAIN last.base \cup DOMAIN last.overrides
       /\ \A c \in DOMAIN last.overrides \ DOMAIN last.base :
             last.all[c] = last.overrides[c]
       /\ \A c \in DOMAIN last.base \ DOMAIN last.overrides :
             last.all[c] = last.base[c]
       /\ \A c \in DOMAIN last.base \cap DOMAIN last.overrides :
             /\ DOMAIN last.all[c] = DOMAIN last.base[c] \cup DOMAIN last.overrides[c]
             /\ \A k \in DOMAIN last.overrides[c] : last.all[c][k] = last.overrides[c][k]
             /\ \A k \in DOMAIN last.base[c] \ DOMAIN last.overrides[c] :
                   last.all[c][k] = last.base[c][k]

\* a merge in which one component is only in base, one only in overrides and
\* one in both, with a key both hold under different values
C12_Witness ==
    /\ Called("mergeParamMaps")
    /\ DOMAIN last.base \ DOMAIN last.overrides # {}
    /\ DOMAIN last.overrides \ DOMAIN last.base # {}
    /\ \E c \in DOMAIN last.base \cap DOMAIN last.overrides :
          \E k \in DOMAIN last.base[c] \cap DOMAIN last.overrides[c] :
              /\ last.base[c][k] # last.overrides[c][k]
              /\ last.all[c][k] = last.overrides[c][k]

(***************************************************************************)
(* C13  Purity of the public operations                                    *)
(***************************************************************************)
\* C13: setComponentParams, setEnvironmentParams and mergeParamMaps leave the
\* mappings passed to them as they were: after the call params (resp. base
\* and overrides) hold the key/value pairs they held before, and the returned
\* map is none of the caller's maps.
C13_Purity ==
    /\ last.op \in {"setComponentParams", "setEnvironmentParams"}
          => last.after = last.params
    /\ Called("mergeParamMaps")
          => /\ last.afterBase = last.base
             /\ last.afterOverrides = last.overrides
             /\ last.returned = ""

(***************************************************************************)
(* C14  No partial result on error                                         *)
(***************************************************************************)
MutatingOps == {"appendComponent", "setComponentParams", "setEnvironmentParams"}

\* C14: whenever appendComponent, setComponentParams or setEnvironmentParams
\* fails, whatever the error, the text it returns is the empty text.
C14_NoPartialResult ==
    (last.op \in MutatingOps /\ last.err # "") => last.text = EmptyText

\* setComponentParams failed on a text of several lines that parses and
\* holds the component, because one of the component's values is not a scalar
C14_Witness ==
    /\ Called("setComponentParams")
    /\ last.err = ErrUnsupportedValue
    /\ Len(last.pre) > 1
    /\ last.component \in KeysOf(ComponentsOf(last.pre))
    /\ last.text = EmptyText

(***************************************************************************)
(* C15  Deleted environment is gone from the project                       *)
(***************************************************************************)
EnvSucceeded(op) == elast.op = op /\ elast.err = ""

\* C15: after a successful DeleteEnvironment(name), GetEnvironment(name) fails
\* with 'does not exist', GetEnvironments does not list name, and
\* CreateEnvironment(name, ...) is not rejected as 'already exists'.
C15_DeletedFromProject ==
    EnvSucceeded("DeleteEnvironment")
    => /\ GetEnvironment(fs, app, elast.name).err = ErrEnvNotExist
       /\ \A e \in GetEnvironments(fs, app).got : e.Name # elast.name
       /\ CreateEnvironment(fs, app, elast.name, TRUE).err # ErrEnvExists

(***************************************************************************)
(* C16  Directories after the deletion of a hierarchical environment       *)
(***************************************************************************)
RECURSIVE BecameEmpty(_, _, _)
\* q, the directory of name or one above it, is left without content by the
\* deletion of name: it is name's directory, or all it held in tree was the
\* directory below it on the way to name, which became empty too
BecameEmpty(tree, name, q) ==
    IF q = name THEN TRUE
    ELSE /\ BecameEmpty(tree, name, SubSeq(name, 1, Len(q) + 1))
         /\ \A e \in tree.dirs \cup tree.files :
               (e # <<>> /\ Dir(e) = q) => e = SubSeq(name, 1, Len(q) + 1)

\* the directories above name's own and below the environments directory
ParentDirs(name) == {SubSeq(name, 1, n) : n \in 1..(Len(name) - 1)}

\* C16: after a successful DeleteEnvironment of a hierarchical name, no
\* directory or file at or below the environment's directory is left, every
\* parent directory below environments/ that became empty is removed, every
\* parent directory that still has content is kept, and nothing outside
\* the removed directories is removed.
C16_HierarchicalDelete ==
    (EnvSucceeded("DeleteEnvironment") /\ Len(elast.name) > 1)
    => /\ \A e \in fs.dirs \cup fs.files : ~IsUnder(elast.name, e)
       /\ \A q \in ParentDirs(elast.name) \cap elast.pre.dirs :
             (q \in fs.dirs) <=> ~BecameEmpty(elast.pre, elast.name, q)
       /\ \A e \in (elast.pre.dirs \cup elast.pre.files) \ {<<>>} :
             (~IsUnder(elast.name, e) /\ e \notin ParentDirs(elast.name))
                => e \in fs.dirs \cup fs.files
       /\ fs.dirs \subseteq elast.pre.dirs /\ fs.files \subseteq elast.pre.files

\* a three-level environment was deleted: its directory held files, the
\* directory above it became empty and was removed, and the one above that
\* still had content and was kept
C16_Witness ==
    /\ EnvSucceeded("DeleteEnvironment")
    /\ Len(elast.name) = 3
    /\ AppendToPath(elast.name, envParamsFile) \in elast.pre.files
    /\ SubSeq(elast.name, 1, 2) \in elast.pre.dirs \ fs.dirs
    /\ SubSeq(elast.name, 1, 1) \in fs.dirs

(***************************************************************************)
(* C17  Locator: first match wins                                          *)
(***************************************************************************)
\* the string key of a field written with an identifier or a quoted string
FieldKey(field) ==
    CASE field.Kind = "ObjectFieldID"  -> field.Id[1]
      [] field.Kind = "ObjectFieldStr" -> field.Expr1.Value
      [] OTHER -> ""

\* the nodes below a node, in the order of the source text
Children(node) ==
    CASE node.kind = "Object" -> [i \in 1..Len(node.Fields) |-> node.Fields[i].Expr2]
      [] node.kind = "Array"  -> node.Elements
      [] node.kind = "Binary" -> <<node.Left, node.Right>>
      [] node.kind = "Local"  -> <<node.Binds[1].Body, node.Body>>
      [] OTHER -> <<>>

\* the fields of an Object node keyed components
OwnComponents(node) ==
    IF node.kind # "Object" THEN {}
    ELSE {i \in 1..Len(node.Fields) : FieldKey(node.Fields[i]) = componentsID}

Min(S) == CHOOSE i \in S : \A j \in S : i <= j

RECURSIVE Locate(_), LocateFirst(_, _)
\* the depth-first pre-order search: at an Object node its own fields are
\* looked at first; the first result found below a node is the result
Locate(node) ==
    IF OwnComponents(node) # {}
    THEN LET v == node.Fields[Min(OwnComponents(node))].Expr2 IN
         IF v.kind = "Object" THEN [found |-> TRUE, err |-> "", obj |-> <<v>>]
         ELSE [found |-> FALSE, err |-> ErrComponentsType, obj |-> NilObj]
    ELSE LocateFirst(Children(node), 1)

LocateFirst(nodes, i) ==
    IF i > Len(nodes) THEN [found |-> FALSE, err |-> "", obj |-> NilObj]
    ELSE LET r == Locate(nodes[i]) IN
         IF r.found \/ r.err # "" THEN r ELSE LocateFirst(nodes, i + 1)

LocatingOps == {"appendComponent", "setComponentParams", "getComponentParams",
                "getAllComponentParams", "setEnvironmentParams", "getEnvironmentParams",
                "getAllEnvironmentParams"}

Parses(s) == astRoot(s).err = ""

\* C17: on a document that parses, the components object an operation works
\* on is the first one of the depth-first pre-order search, own fields of an
\* Object first; a node later in the search neither replaces it nor turns the
\* result into an error.
C17_FirstMatchWins ==
    (last.op \in LocatingOps /\ Parses(last.pre) /\ Locate(astRoot(last.pre).node).found)
    => /\ visitComponentsObj(last.pre).err = ""
       /\ visitComponentsObj(last.pre).obj = Locate(astRoot(last.pre).node).obj
       /\ Called("getAllComponentParams")
             => last.all = visitAllParams(Locate(astRoot(last.pre).node).obj[1]).all

(***************************************************************************)
(* C18  Quoted and identifier keys                                         *)
(***************************************************************************)
\* the object bound to component c in the components object of s
ComponentObject(s, c) ==
    ComponentsOf(s).Fields[CHOOSE i \in 1..Len(ComponentsOf(s).Fields) :
                              FieldKey(ComponentsOf(s).Fields[i]) = c].Expr2

HasComponentObject(s, c) ==
    /\ Located(s)
    /\ \E i \in 1..Len(ComponentsOf(s).Fields) :
          /\ FieldKey(ComponentsOf(s).Fields[i]) = c
          /\ ComponentsOf(s).Fields[i].Expr2.kind = "Object"

\* the keys of the fields of an object written with either key syntax
PlainFieldKeys(obj) ==
    {FieldKey(obj.Fields[i]) :
        i \in {j \in 1..Len(obj.Fields) :
                  obj.Fields[j].Kind \in {"ObjectFieldID", "ObjectFieldStr"}}}

\* C18: every field of a component's object, its key an identifier or a
\* quoted string, is in the Params of getComponentParams and of
\* getAllComponentParams under its key, and is still a field of the
\* component after a setComponentParams whose result parses.
C18_QuotedKeysNormalize ==
    /\ Succeeded("getComponentParams")
          => PlainFieldKeys(ComponentObject(last.pre, last.component)) \subseteq DOMAIN last.got
    /\ Succeeded("getAllComponentParams")
          => \A c \in DOMAIN last.all :
                PlainFieldKeys(ComponentObject(last.pre, c)) \subseteq DOMAIN last.all[c]
    /\ (Succeeded("setComponentParams") /\ HasComponentObject(last.text, last.component))
          => PlainFieldKeys(ComponentObject(last.pre, last.component))
                \subseteq PlainFieldKeys(ComponentObject(last.text, last.component))

(***************************************************************************)
(* C19  No components field                                                *)
(***************************************************************************)
RECURSIVE HasComponentsKey(_)
\* some Object node of the tree has a field keyed components
HasComponentsKey(node) ==
    \/ OwnComponents(node) # {}
    \/ \E i \in 1..Len(Children(node)) : HasComponentsKey(Children(node)[i])

\* C19: on a document that parses and holds no field keyed components, every
\* store operation fails with the not-found error for components, returns
\* nothing and leaves the file as it is; imports, self, $, variables, literals
\* and nil children are walked without error.
C19_NoComponentsNotFound ==
    (last.op \in LocatingOps /\ Parses(last.pre)
        /\ ~HasComponentsKey(astRoot(last.pre).node))
    => /\ last.err = ErrNoComponents
       /\ last.text = EmptyText /\ last.got = EmptyParams /\ last.all = EmptyParams
       /\ snippet = last.pre

\* appendComponent failed with not-found on the document that holds an
\* import, a variable, self, $, null, a boolean, a string and a number and no
\* components field
C19_Witness ==
    /\ Called("appendComponent")
    /\ last.pre = DocNoComponents
    /\ Parses(last.pre)
    /\ last.err = ErrNoComponents

(***************************************************************************)
(* C20  components is not an object                                        *)
(***************************************************************************)
\* C20: on a document that parses and whose components field, the first in
\* the search, is bound to a value that is not an Object, every store
\* operation fails with 'Expected components node type to be object'.
C20_ComponentsMustBeObject ==
    (last.op \in LocatingOps /\ Parses(last.pre)
        /\ Locate(astRoot(last.pre).node).err # "")
    => last.err = ErrComponentsType

(***************************************************************************)
(* C21  writeParams renders a leading newline, one line per key in         *)
(* ascending lexicographic key order, each `indent` spaces followed by     *)
(* `key: value,`, the lines separated by one newline, and a trailing       *)
(* newline; the text is a function of the Params and the indent only, so   *)
(* neither the order in which the map yields its keys nor the calls made   *)
(* before change it.                                                       *)
(***************************************************************************)
\* the i-th key of a Params in ascending order
KeyAt(params, i) ==
    CHOOSE k \in DOMAIN params :
        Cardinality({j \in DOMAIN params : StringLess(j, k)}) = i - 1

\* the number of newlines of the rendering of n keys: the leading one, one
\* between two lines, the trailing one
Newlines(n) == 1 + (IF n = 0 THEN 0 ELSE n - 1) + 1

\* C21: the text of writeParams is the empty first line, the lines
\* `key: value,` at the indent in ascending key order, and the empty last
\* line, whatever the order of the keys in the map and the calls before.
C21_WriteParamsFormat ==
    last.op = "writeParams" =>
        LET t == last.text
            p == last.params
            n == Cardinality(DOMAIN p)
        IN /\ Len(t) = Newlines(n) + 1
           /\ t[1] = EmptyLine
           /\ t[Len(t)] = EmptyLine
           /\ n = 0 => t[2] = EmptyLine
           /\ \A i \in 1..n :
                 /\ t[i + 1].ind = last.indent
                 /\ t[i + 1].toks = LexText(KeyAt(p, i)) \o <<P(":")>>
                                      \o LexText(p[KeyAt(p, i)]) \o <<P(",")>>
           /\ t = writeParams(last.indent, p)

\* a second call, with three keys the map yields out of order
C21_Witness ==
    /\ last.op = "writeParams"
    /\ nops = 2
    /\ last.indent = 6
    /\ Len(last.keys) = 3
    /\ \E i \in 1..2 : StringLess(last.keys[i + 1], last.keys[i])
    /\ Len(last.text) = 5

(***************************************************************************)
(* C22  Duplicate parameter keys                                           *)
(***************************************************************************)
\* the number of objects open at token i
Depth(toks, i) ==
    Cardinality({m \in 1..(i - 1) : IsP(toks[m], "{")})
      - Cardinality({m \in 1..(i - 1) : IsP(toks[m], "}")})

\* token i is the literal key of a field
IsKeyAt(toks, i) ==
    /\ toks[i].k \in {"id", "str1", "str2"}
    /\ i > 1 /\ (IsP(toks[i - 1], "{") \/ IsP(toks[i - 1], ","))
    /\ i < Len(toks) /\ (IsP(toks[i + 1], ":") \/ IsP(toks[i + 1], "+:"))

KeysAt(toks) == {i \in 1..Len(toks) : IsKeyAt(toks, i)}

\* the pairs of declarations of one key in one object
DuplicateKeys(toks) ==
    {pr \in KeysAt(toks) \X KeysAt(toks) :
        /\ pr[1] < pr[2]
        /\ toks[pr[1]].v = toks[pr[2]].v
        /\ \A m \in pr[1]..pr[2] : Depth(toks, m) >= Depth(toks, pr[1])
        /\ Depth(toks, pr[2]) = Depth(toks, pr[1])}

\* the key of the field whose object holds token i
Owner(toks, i) ==
    LET opens == {m \in 1..(i - 1) : /\ IsP(toks[m], "{")
                                      /\ Depth(toks, m) = Depth(toks, i) - 1
                                      /\ \A q \in m..i : Depth(toks, q) >= Depth(toks, m)}
        m == CHOOSE x \in opens : \A y \in opens : y <= x
    IN IF opens = {} \/ m < 3 THEN "" ELSE toks[m - 2].v

\* the Params value a literal token is read as
ValueText(t) ==
    CASE t.k = "num"  -> FormatFloat(ParseFloat(t.v))
      [] t.k \in {"str1", "str2"} -> Quote(t.v)
      [] OTHER -> t.v

ReadOps == {"getComponentParams", "getAllComponentParams", "getEnvironmentParams",
            "getAllEnvironmentParams"}

C23_InitManagerNoPartialTree ==
    (elast.op = "initManager" /\ elast.outcome # "ok")
        => /\ fs = elast.pre
           /\ elast.err = generateKsonnetLibData(elast.outcome)
           /\ elast.err \in {ErrClusterSpec, ErrLibData}

\* a failed initManager of a directory that was free, after one that
\* succeeded elsewhere
C23_Witness ==
    /\ elast.op = "initManager"
    /\ elast.outcome = "data"
    /\ elast.serverURI
    /\ elast.name = <<"work", "app">>
    /\ ~Exists(elast.pre, <<"work">>)
    /\ DirExists(elast.pre, <<"app", "environments", "default">>)
    /\ fs = elast.pre
    /\ elast.err = ErrClusterSpec

(***************************************************************************)
(* C24  Read agreement: when getAllComponentParams(s) succeeds, then for   *)
(* every component name c of its result getComponentParams(c, s) succeeds  *)
(* and returns the Params getAllComponentParams(s) holds under c.  (A      *)
(* components object that declares a name twice does not parse, and one    *)
(* that repeats it under a computed key makes getAllComponentParams fail.) *)
(***************************************************************************)
C24_ReadAgreement ==
    Succeeded("getAllComponentParams")
        => \A c \in DOMAIN last.all :
              /\ getComponentParams(c, last.pre).err = ""
              /\ getComponentParams(c, last.pre).params = last.all[c]

\* two components with different Params read at once
C24_Witness ==
    /\ Succeeded("getAllComponentParams")
    /\ \E c, e \in DOMAIN last.all :
          /\ c # e
          /\ last.all[c] # last.all[e]
          /\ last.all[c] # EmptyParams

(***************************************************************************)
(* C25  Refinement of a map store                                          *)
(***************************************************************************)
\* the text visitParamValue reads a literal back as
Canonical(v) == ValueText(LexText(v)[1])

CanonicalParams(params) == [k \in DOMAIN params |-> Canonical(params[k])]

\* the abstract store after the call: insert on append, merge on set
StoreAfter(op, store, c, params) ==
    IF op = "appendComponent" THEN MapSet(store, c, params)
    ELSE MapSet(store, c, MergeOf(params, store[c]))

\* the call was one the store allows, succeeded, and the text it left reads
\* as the store updated with params
RefinesStore(before, after, params) ==
    (/\ before.err = ""
     /\ \/ last.op = "appendComponent" /\ last.component \notin DOMAIN before.all
        \/ last.op = "setComponentParams" /\ last.component \in DOMAIN before.all)
    => /\ last.err = ""
       /\ after.err = ""
       /\ after.all = StoreAfter(last.op, before.all, last.component, params)

\* C25: from the generated component params file, every appendComponent of
\* a fresh name and every setComponentParams of an existing name succeeds,
\* and getAllComponentParams of the current text is the abstract mapping
\* after insert (append) or merge, incoming keys winning (set), of the Params
\* given.
C25_MapStoreRefinement ==
    /\ getAllComponentParams(snippet).err = ""
    /\ RefinesStore(getAllComponentParams(last.pre), getAllComponentParams(snippet),
                    last.params)

\* C25 as the code has it: the mapping holds every value as visitParamValue
\* reads it back, a number in the shortest decimal form (1.0 is read as 1)
\* and a string in double quotes.
C25_MapStoreRefinementCanonical ==
    /\ getAllComponentParams(snippet).err = ""
    /\ RefinesStore(getAllComponentParams(last.pre), getAllComponentParams(snippet),
                    CanonicalParams(last.params))

\* a set that merges 1.0 into a component appended with other keys
C25_Witness ==
    /\ nops = 2
    /\ Succeeded("setComponentParams")
    /\ last.params = [x |-> "1.0"]
    /\ getAllComponentParams(snippet).err = ""
    /\ last.component \in DOMAIN getAllComponentParams(snippet).all
    /\ getAllComponentParams(snippet).all[last.component] = [b |-> "3", x |-> "1", z |-> "9"]

(***************************************************************************)
(* C26  The removal of empty parent directories after DeleteEnvironment or *)
(* a SetEnvironment rename never removes the environments directory        *)
(* itself: after any sequence of create, rename and delete calls, the      *)
(* deletion of the last environment included, the environments directory   *)
(* exists.  (The loop does look at the environments directory, as the      *)
(* parent "." of a one-level name; base.libsonnet, which createAppDirTree  *)
(* writes there and no call removes, keeps it from being empty.)           *)
(***************************************************************************)
C26_RootKept == DirExists(fs, <<>>)

\* the last environment was deleted, and a rename cleaned parents before:
\* no directory but the environments directory is left
C26_Witness ==
    /\ EnvSucceeded("DeleteEnvironment")
    /\ Len(elast.name) = 1
    /\ elast.name \in elast.pre.dirs
    /\ fs.dirs = {<<>>}
    /\ \E e \in app : e.Name = elast.name /\ e.Name # <<"default">>

====
